---- MODULE Spec2Model ----
(***************************************************************************)
(* Esperance Saguenay (src/app.py, src/models.py): the Flask request        *)
(* handlers over the peewee tables User, Project, Need, Media, ProjectLink, *)
(* Comment and Contribution.                                                *)
(*                                                                          *)
(* A handler is modelled in two parts: H_read (the reads and the checks it  *)
(* makes before its first write: the values it keeps in local variables)    *)
(* and H_commit (its writes).  In the sequential specifications a request   *)
(* runs both parts in one step; in the concurrent specifications            *)
(* the two parts are separate steps (HBegin, HEnd) and the locals wait in   *)
(* req[c], so that other requests commit in between.                        *)
(*                                                                          *)
(* models.init_database picks the backend from DATABASE_URL: PostgreSQL     *)
(* (foreign keys enforced, ids from a sequence that never goes back) or     *)
(* SQLite opened without the foreign_keys pragma (foreign keys not          *)
(* enforced, a new rowid is max(rowid)+1).  Both are modelled: `backend` is *)
(* chosen in Init.                                                          *)
(*                                                                          *)
(* Text is a sequence of one-character strings, so that strip(), lower()    *)
(* and int() are computed and not assumed.                                  *)
(***************************************************************************)
EXTENDS Integers, Sequences, FiniteSets, TLC

\* ------------------------------------------------------------------ bounds
\* Each specification has its own bounds (the record lim, set in its initial
\* state and never changed): the number of clients (browsers), the largest id
\* of each table, and the largest visit counter.
LcClients == 1
LcProjects == 1
LcVisits == 1
\* the ledger
LdClients == 1
LdProjects == 1
LdNeeds == 1
LdContribs == 2
\* the ledger, requests interleaved
ClClients == 2
ClProjects == 1
ClNeeds == 1
ClContribs == 2
\* a project and its dependents
CaClients == 1
CaProjects == 1
CaNeeds == 1
CaContribs == 1
CaComments == 1
CaMedias == 1
CaLinks == 1
\* the comment tree
CmClients == 1
CmProjects == 1
CmComments == 3
\* moderation, requests interleaved
CvClients == 2
CvProjects == 1
CvVisits == 1
\* registration, requests interleaved
CsClients == 2
CsUsers == 4

\* SpecAccounts
AcClients == 1
AcUsers == 3

\* SpecAccountDeletion
AdClients == 1
AdProjects == 1
AdNeeds == 1
AdContribs == 1
AdComments == 1

\* SpecRollback
RoClients == 1
RoProjects == 1
RoContribs == 1
RoComments == 1

\* SpecContribute
CoClients == 1
CoProjects == 1
CoNeeds == 1
CoContribs == 2

\* SpecThreads
ThClients == 1
ThProjects == 2
ThComments == 2

\* SpecRights
RiClients == 1
RiUsers == 3
RiProjects == 1
RiNeeds == 1

\* SpecAuthors
AuClients == 1
AuComments == 2

\* SpecEdit
EdProjects == 2
EdNeeds == 2

\* SpecOwnership
OwClients == 1
OwProjects == 1

\* SpecCreator
CrProjects == 1
CrVisits == 1

\* SpecNeeds
NdProjects == 1
NdNeeds == 2

\* SpecSeeding
SdClients == 2
SdUsers == 3

\* SpecGate
GaClients == 2
GaUsers == 3
GaProjects == 1
GaNeeds == 1
GaContribs == 1

\* ------------------------------------------------------------------- text
\* str.strip(): drop the leading and the trailing blanks.
RECURSIVE LStrip(_)
LStrip(s) == IF s # <<>> /\ Head(s) = " " THEN LStrip(Tail(s)) ELSE s

RECURSIVE RStrip(_)
RStrip(s) ==
    IF s # <<>> /\ s[Len(s)] = " " THEN RStrip(SubSeq(s, 1, Len(s) - 1)) ELSE s

Strip(s) == RStrip(LStrip(s))

\* str.lower() on the letters the model uses.
LowerChar(ch) ==
    CASE ch = "A" -> "a"
      [] ch = "U" -> "u"
      [] OTHER -> ch

Lower(s) == [i \in DOMAIN s |-> LowerChar(s[i])]

\* int(): an optional sign and at least one digit, nothing else.
Digits == {"0", "1", "2", "3"}

DigitVal(ch) ==
    CASE ch = "0" -> 0
      [] ch = "1" -> 1
      [] ch = "2" -> 2
      [] ch = "3" -> 3

IntBody(s) == IF s # <<>> /\ Head(s) \in {"-", "+"} THEN Tail(s) ELSE s

IsInt(s) == IntBody(s) # <<>> /\ \A i \in DOMAIN IntBody(s) : IntBody(s)[i] \in Digits

RECURSIVE DigitsVal(_)
DigitsVal(s) ==
    IF s = <<>> THEN 0
    ELSE 10 * DigitsVal(SubSeq(s, 1, Len(s) - 1)) + DigitVal(s[Len(s)])

IntOf(s) == IF Head(s) = "-" THEN 0 - DigitsVal(IntBody(s)) ELSE DigitsVal(IntBody(s))

\* ------------------------------------------------------------------ state
VARIABLES
    backend,    \* "sqlite" | "postgres"  (models.init_database)
    db,         \* the tables, and the id sequences of PostgreSQL
    session,    \* per client (browser): the user id in the cookie, 0 if none
    req,        \* per client: the locals of its request in flight, or Idle
    resp,       \* the last response sent
    lim         \* the bounds of the specification (constant)

vars == <<backend, db, session, req, resp, lim>>

Clients == 1..lim.clients

None == 0       \* a null foreign key or integer column, an absent session user
NoCode == <<>>  \* a null verification_code
NoStamp == <<>>  \* a null verification_created_at
Now == <<"now">>  \* datetime.datetime.now()
NoRow == [id |-> None]  \* what a look-up that finds nothing gives
Idle == [op |-> "idle"]

Tables == {"users", "projects", "needs", "medias", "links", "comments", "contribs"}

Ids(rows) == {r.id : r \in rows}

MaxId(rows) == IF rows = {} THEN 0 ELSE CHOOSE m \in Ids(rows) : \A i \in Ids(rows) : i <= m

\* The id the next INSERT into table t gets: SQLite's rowid rule, or the
\* PostgreSQL sequence.
NextId(d, t) == IF backend = "sqlite" THEN MaxId(d[t]) + 1 ELSE d.seq[t] + 1

\* Model.create(): the row with its new id; a PostgreSQL sequence advances.
Insert(d, t, row) ==
    [d EXCEPT ![t] = @ \cup {row @@ [id |-> NextId(d, t)]},
              !.seq[t] = IF backend = "postgres" THEN @ + 1 ELSE @]

\* A transaction rolled back: the tables as before, the sequences as they are.
Rollback(before, after) == [before EXCEPT !.seq = after.seq]

Row(rows, i) == CHOOSE r \in rows : r.id = i

Has(rows, i) == \E r \in rows : r.id = i

\* A foreign key that points at no row.
Dangling(d) ==
    \/ \E p \in d.projects : ~Has(d.users, p.createur)
    \/ \E n \in d.needs : ~Has(d.projects, n.project)
    \/ \E m \in d.medias : ~Has(d.projects, m.project)
    \/ \E l \in d.links : ~Has(d.projects, l.project)
    \/ \E k \in d.comments :
          \/ ~Has(d.projects, k.project)
          \/ ~Has(d.users, k.auteur)
          \/ (k.parent # None /\ ~Has(d.comments, k.parent))
    \/ \E x \in d.contribs : ~Has(d.needs, x.need) \/ ~Has(d.users, x.user)

\* What the backend refuses with an IntegrityError at the end of a statement.
FkError(d) == backend = "postgres" /\ Dangling(d)

\* werkzeug's generate_password_hash / check_password_hash.
Hash(pw) == <<"hash", pw>>
CheckHash(h, pw) == h = Hash(pw)

\* A response: the handler, its outcome, the projects a page lists and the
\* number a flash message reports.
\* (c: the client answered; action: the action an administrator asked for;
\* input: what the request sent, form fields and id in the URL.)
Resp(c, op, out) ==
    [c |-> c, op |-> op, out |-> out, shown |-> {}, n |-> 0, action |-> "", input |-> <<>>]
Shown(c, op, out, ps) == [Resp(c, op, out) EXCEPT !.shown = ps]
Told(c, op, out, k) == [Resp(c, op, out) EXCEPT !.n = k]
Asked(c, op, out, form) == [Resp(c, op, out) EXCEPT !.input = form]

\* ---------------------------------------------------------------- helpers
\* get_current_user(): the session's user row, or None.
CurrentUser(c) ==
    IF session[c] # None /\ Has(db.users, session[c]) THEN Row(db.users, session[c]) ELSE NoRow

\* @login_required: a user id is in the session.
LoggedIn(c) == session[c] # None

\* ------------------------------------------------------------------- seed
AdminEmail == <<"a", "d">>
OwnerEmail == <<"o", "w">>
AdminPwd == "changement123"
OwnerPwd == "changement456"

\* seed_admin / seed_owner on a fresh database: get_or_create by email.
SeedUser(d, email, pwd, ville) ==
    IF \E u \in d.users : u.email = email
    THEN [d EXCEPT !.users = {IF u.email = email
                               THEN [u EXCEPT !.is_admin = TRUE, !.is_verified = TRUE,
                                              !.verification_code = NoCode,
                                              !.verification_created_at = NoStamp]
                               ELSE u : u \in @}]
    ELSE Insert(d, "users", [email |-> email, password_hash |-> Hash(pwd), ville |-> ville,
                             is_verified |-> TRUE, verification_code |-> NoCode,
                             verification_created_at |-> NoStamp, is_admin |-> TRUE])

EmptyDb ==
    [users |-> {}, projects |-> {}, needs |-> {}, medias |-> {}, links |-> {},
     comments |-> {}, contribs |-> {}, seq |-> [t \in Tables |-> 0]]

Init(L) ==
    /\ lim = L
    /\ backend \in {"sqlite", "postgres"}
    /\ db = SeedUser(SeedUser(EmptyDb, AdminEmail, AdminPwd, <<"c">>), OwnerEmail, OwnerPwd, <<"l">>)
    /\ session = [c \in Clients |-> None]
    /\ req = [c \in Clients |-> Idle]
    /\ resp = Resp(None, "none", "none")

\* The database after init_database and before the seeding: the tables, empty.
InitFresh(L) ==
    /\ lim = L
    /\ backend \in {"sqlite", "postgres"}
    /\ db = EmptyDb
    /\ session = [c \in Clients |-> None]
    /\ req = [c \in Clients |-> Idle]
    /\ resp = Resp(None, "none", "none")

\* Model.save() of a row read earlier: UPDATE of every column WHERE id = row.id
\* (no row is touched when the row is gone).
Save(d, t, row) == [d EXCEPT ![t] = {IF r.id = row.id THEN row ELSE r : r \in @}]

\* --------------------------------------------------------------- accounts
\* What the forms send.  filled: prenom and nom are non-empty.
RawEmails == {<<"u">>, <<"U">>, <<" ", "U">>, <<"a", "d">>, <<"A", "d">>, <<" ">>}
Codes == {<<"0", "1">>, <<"0", "2">>}
RawCodes == Codes \cup {<<"0", "1", " ">>, <<>>}
UserPwd == "secret"
Pwds == {UserPwd, AdminPwd, OwnerPwd, ""}

\* signup, lines 404-416: the form, the required fields, the email look-up.
Signup_read(c, f) ==
    LET email == Lower(Strip(f.email))
        ville == Strip(f.ville)
    IN
    [op |-> "signup", email |-> email, pw |-> f.pw, code |-> f.code, ville |-> ville,
     out |-> IF ~(f.filled /\ ville # <<>> /\ email # <<>> /\ f.pw # "") THEN "validation"
             ELSE IF \E u \in db.users : u.email = email THEN "duplicate_email"
             ELSE "go"]

\* Signup_commit on a table whose email column has no unique index.
Signup_commit_NoIndex(c, l) ==
    /\ session' = session
    /\ IF l.out # "go"
       THEN db' = db /\ resp' = Resp(c, "signup", l.out)
       ELSE /\ NextId(db, "users") <= lim.users
            /\ db' = Insert(db, "users",
                            [email |-> l.email, password_hash |-> Hash(l.pw),
                             ville |-> l.ville, is_verified |-> FALSE, verification_code |-> l.code,
                             verification_created_at |-> Now, is_admin |-> FALSE])
            /\ resp' = Resp(c, "signup", "created")

\* signup, lines 418-445: User.create under the unique index on email.
Signup_commit(c, l) ==
    /\ session' = session
    /\ IF l.out # "go"
       THEN db' = db /\ resp' = Resp(c, "signup", l.out)
       ELSE /\ NextId(db, "users") <= lim.users
            /\ LET d1 == Insert(db, "users",
                                [email |-> l.email, password_hash |-> Hash(l.pw),
                                 ville |-> l.ville, is_verified |-> FALSE, verification_code |-> l.code,
                                 verification_created_at |-> Now, is_admin |-> FALSE])
               IN IF \E u \in db.users : u.email = l.email
                  THEN /\ db' = Rollback(db, d1)
                       /\ resp' = Resp(c, "signup", "integrity_error")
                  ELSE /\ db' = d1
                       /\ resp' = Resp(c, "signup", "created")

SignupForms ==
    [filled : BOOLEAN, ville : {<<"s">>, <<" ">>}, email : RawEmails, pw : {UserPwd, ""},
     code : Codes]

\* Complete forms.
GoodSignups ==
    [filled : {TRUE}, ville : {<<"s">>}, email : {<<"u">>, <<" ", "U">>, <<"A", "d">>},
     pw : {UserPwd}, code : {<<"0", "1">>}]

Signup(c, Forms) ==
    /\ req[c] = Idle
    /\ \E f \in Forms : Signup_commit(c, Signup_read(c, f))
    /\ UNCHANGED <<backend, req, lim>>

\* verify_account, lines 456-475.
Verify_read(c, f) ==
    LET email == Lower(Strip(f.email))
        code == Strip(f.code)
        found == {u \in db.users : u.email = email}
        user == IF found = {} THEN NoRow ELSE CHOOSE u \in found : TRUE
    IN [op |-> "verify", user |-> user, form |-> <<f.email, f.code>>,
        out |-> IF email = <<>> \/ code = <<>> THEN "missing"
                ELSE IF found = {} THEN "no_account"
                ELSE IF user.is_verified THEN "already_verified"
                ELSE IF user.verification_code # code THEN "code_mismatch"
                ELSE "go"]

\* Verify_commit with a save that leaves the code and its timestamp stored.
Verify_commit_KeepsCode(c, l) ==
    /\ session' = session
    /\ IF l.out # "go"
       THEN db' = db /\ resp' = Asked(c, "verify", l.out, l.form)
       ELSE /\ db' = Save(db, "users", [l.user EXCEPT !.is_verified = TRUE])
            /\ resp' = Asked(c, "verify", "verified", l.form)

\* verify_account, lines 477-484: user.save().
Verify_commit(c, l) ==
    /\ session' = session
    /\ IF l.out # "go"
       THEN db' = db /\ resp' = Asked(c, "verify", l.out, l.form)
       ELSE /\ db' = Save(db, "users", [l.user EXCEPT !.is_verified = TRUE,
                                                      !.verification_code = NoCode,
                                                      !.verification_created_at = NoStamp])
            /\ resp' = Asked(c, "verify", "verified", l.form)

VerifyForms == [email : RawEmails, code : RawCodes]

VerifyWith(c, Forms) ==
    /\ req[c] = Idle
    /\ \E f \in Forms : Verify_commit(c, Verify_read(c, f))
    /\ UNCHANGED <<backend, req, lim>>

Verify(c) == VerifyWith(c, VerifyForms)

\* The new user, and the code that was sent.
UserSignup ==
    {[filled |-> TRUE, ville |-> <<"s">>, email |-> <<"u">>, pw |-> UserPwd, code |-> <<"0", "1">>]}
UserVerify == {[email |-> <<"u">>, code |-> <<"0", "1">>]}
UserLogin == {[email |-> <<"u">>, mot_de_passe |-> UserPwd]}

\* Login that gives a session without looking at is_verified.
Login_NoVerifiedCheck(c, Forms) ==
    /\ req[c] = Idle
    /\ \E f \in Forms :
         LET email == Lower(Strip(f.email))
             pw == f.mot_de_passe
             found == {u \in db.users : u.email = email}
             user == CHOOSE u \in found : TRUE
         IN IF found = {} \/ ~CheckHash(user.password_hash, pw)
            THEN /\ resp' = Asked(c, "login", "invalid_credentials", <<f.email, <<pw>>>>)
                 /\ session' = session
            ELSE IF FALSE
            THEN /\ resp' = Asked(c, "login", "not_verified", <<f.email, <<pw>>>>)
                 /\ session' = session
            ELSE /\ resp' = Asked(c, "login", "session", <<f.email, <<pw>>>>)
                 /\ session' = [session EXCEPT ![c] = user.id]
    /\ UNCHANGED <<backend, db, req, lim>>

\* login, lines 492-517.
Login(c, Forms) ==
    /\ req[c] = Idle
    /\ \E f \in Forms :
         LET email == Lower(Strip(f.email))
             pw == f.mot_de_passe
             found == {u \in db.users : u.email = email}
             user == CHOOSE u \in found : TRUE
         IN IF found = {} \/ ~CheckHash(user.password_hash, pw)
            THEN /\ resp' = Asked(c, "login", "invalid_credentials", <<f.email, <<pw>>>>)
                 /\ session' = session
            ELSE IF ~user.is_verified
            THEN /\ resp' = Asked(c, "login", "not_verified", <<f.email, <<pw>>>>)
                 /\ session' = session
            ELSE /\ resp' = Asked(c, "login", "session", <<f.email, <<pw>>>>)
                 /\ session' = [session EXCEPT ![c] = user.id]
    /\ UNCHANGED <<backend, db, req, lim>>

LoginForms == [email : RawEmails, mot_de_passe : Pwds]

AdminLogin == {[email |-> AdminEmail, mot_de_passe |-> AdminPwd]}

\* The three users with their passwords.
GoodLogins ==
    {[email |-> AdminEmail, mot_de_passe |-> AdminPwd],
     [email |-> OwnerEmail, mot_de_passe |-> OwnerPwd],
     [email |-> <<"u">>, mot_de_passe |-> UserPwd]}

\* logout, lines 523-526: session.clear().
Logout(c) ==
    /\ req[c] = Idle
    /\ session[c] # None
    /\ session' = [session EXCEPT ![c] = None]
    /\ resp' = Resp(c, "logout", "ok")
    /\ UNCHANGED <<backend, db, req, lim>>


\* --------------------------------------------------------------- projects
\* The model's bound on the ids handed out.
WithinBounds(d) == \A t \in Tables : MaxId(d[t]) <= lim[t] /\ d.seq[t] <= lim[t]

\* CreateNeeds that takes every integer as a goal.
RECURSIVE CreateNeeds_AnyInteger(_, _, _, _, _)
CreateNeeds_AnyInteger(d, pid, textes, montants, idx) ==
    IF idx > Len(textes) THEN d
    ELSE LET texte == Strip(textes[idx])
             montant_raw == IF idx <= Len(montants) THEN Strip(montants[idx]) ELSE <<>>
             money == montant_raw # <<>> /\ IsInt(montant_raw)
         IN IF texte = <<>> THEN CreateNeeds_AnyInteger(d, pid, textes, montants, idx + 1)
            ELSE CreateNeeds_AnyInteger(
                   Insert(d, "needs",
                          [project |-> pid, texte |-> texte, is_fulfilled |-> FALSE, fulfilled_at |-> NoStamp,
                           is_money |-> money,
                           amount_goal |-> IF money THEN IntOf(montant_raw) ELSE None]),
                   pid, textes, montants, idx + 1)

\* new_project, lines 557-584: one Need per non-empty text; a money need only
\* for an amount that parses to a positive integer.
RECURSIVE CreateNeeds(_, _, _, _, _)
CreateNeeds(d, pid, textes, montants, idx) ==
    IF idx > Len(textes) THEN d
    ELSE LET texte == Strip(textes[idx])
             montant_raw == IF idx <= Len(montants) THEN Strip(montants[idx]) ELSE <<>>
             money == montant_raw # <<>> /\ IsInt(montant_raw) /\ IntOf(montant_raw) > 0
         IN IF texte = <<>> THEN CreateNeeds(d, pid, textes, montants, idx + 1)
            ELSE CreateNeeds(
                   Insert(d, "needs",
                          [project |-> pid, texte |-> texte, is_fulfilled |-> FALSE, fulfilled_at |-> NoStamp,
                           is_money |-> money,
                           amount_goal |-> IF money THEN IntOf(montant_raw) ELSE None]),
                   pid, textes, montants, idx + 1)

\* edit_project, lines 638-642: Need.create(project, texte) for each non-empty text.
RECURSIVE CreateTextNeeds(_, _, _, _)
CreateTextNeeds(d, pid, besoins, idx) ==
    IF idx > Len(besoins) THEN d
    ELSE IF Strip(besoins[idx]) = <<>> THEN CreateTextNeeds(d, pid, besoins, idx + 1)
    ELSE CreateTextNeeds(
           Insert(d, "needs",
                  [project |-> pid, texte |-> Strip(besoins[idx]), is_fulfilled |-> FALSE, fulfilled_at |-> NoStamp,
                   is_money |-> FALSE, amount_goal |-> None]),
           pid, besoins, idx + 1)

\* lines 587-591 and 646-650: one ProjectLink per non-empty url.
RECURSIVE CreateLinks(_, _, _, _)
CreateLinks(d, pid, urls, idx) ==
    IF idx > Len(urls) THEN d
    ELSE IF Strip(urls[idx]) = <<>> THEN CreateLinks(d, pid, urls, idx + 1)
    ELSE CreateLinks(Insert(d, "links", [project |-> pid, url |-> Strip(urls[idx])]),
                     pid, urls, idx + 1)

ALLOWED_IMAGE_EXT == {".jpg", ".jpeg", ".png", ".gif", ".jfif"}
ALLOWED_VIDEO_EXT == {".mp4", ".webm", ".ogg"}

\* save_media_files: a file is [filename, suffix]; a Media row for the allowed
\* extensions, the others are skipped.
RECURSIVE SaveMediaFiles(_, _, _, _)
SaveMediaFiles(d, pid, files, idx) ==
    IF idx > Len(files) THEN d
    ELSE LET f == files[idx] IN
         IF f.filename = "" \/ f.suffix \notin (ALLOWED_IMAGE_EXT \cup ALLOWED_VIDEO_EXT)
         THEN SaveMediaFiles(d, pid, files, idx + 1)
         ELSE SaveMediaFiles(
                Insert(d, "medias",
                       [project |-> pid, filename |-> f.filename,
                        media_type |-> IF f.suffix \in ALLOWED_IMAGE_EXT
                                       THEN "image" ELSE "video"]),
                pid, files, idx + 1)

\* new_project, lines 533-544.  A session whose user row is gone passes
\* @login_required and then fails on current_user.ville or on the NOT NULL
\* createur.
NewProject_read(c, f) ==
    LET user == CurrentUser(c)
        description == Strip(f.description)
        ville_form == Strip(f.ville)
    IN [op |-> "new_project", f |-> f, description |-> description,
        createur |-> user.id,
        ville |-> IF ville_form # <<>> THEN ville_form
                  ELSE IF user.id = None THEN <<>> ELSE user.ville,
        out |-> IF ~LoggedIn(c) THEN "login_required"
                ELSE IF ville_form = <<>> /\ user.id = None THEN "error"
                ELSE IF description = <<>> THEN "validation"
                ELSE IF user.id = None THEN "error"
                ELSE "go"]

\* NewProject_commit that creates the project validated.
NewProject_commit_Validated(c, l) ==
    /\ session' = session
    /\ IF l.out # "go"
       THEN db' = db /\ resp' = Asked(c, "new_project", l.out, <<l.f>>)
       ELSE LET pid == NextId(db, "projects")
                d1 == Insert(db, "projects",
                             [createur |-> l.createur, description |-> l.description,
                              ville |-> l.ville, status |-> "validated",
                              deleted_by_admin |-> FALSE, visits_count |-> 0])
                d2 == CreateNeeds(d1, pid, l.f.besoins_texte, l.f.besoins_montant, 1)
                d3 == CreateLinks(d2, pid, l.f.urls, 1)
                d4 == SaveMediaFiles(d3, pid, l.f.medias, 1)
            IN /\ WithinBounds(d4)
               /\ IF FkError(d4)
                  THEN /\ db' = Rollback(db, d4)
                       /\ resp' = Asked(c, "new_project", "error", <<l.f>>)
                  ELSE /\ db' = d4
                       /\ resp' = [Shown(c, "new_project", "created", {pid})
                                     EXCEPT !.input = <<l.f>>]

\* new_project, lines 546-598: the project, its needs, links and medias in one
\* transaction.
NewProject_commit(c, l) ==
    /\ session' = session
    /\ IF l.out # "go"
       THEN db' = db /\ resp' = Asked(c, "new_project", l.out, <<l.f>>)
       ELSE LET pid == NextId(db, "projects")
                d1 == Insert(db, "projects",
                             [createur |-> l.createur, description |-> l.description,
                              ville |-> l.ville, status |-> "pending",
                              deleted_by_admin |-> FALSE, visits_count |-> 0])
                d2 == CreateNeeds(d1, pid, l.f.besoins_texte, l.f.besoins_montant, 1)
                d3 == CreateLinks(d2, pid, l.f.urls, 1)
                d4 == SaveMediaFiles(d3, pid, l.f.medias, 1)
            IN /\ WithinBounds(d4)
               /\ IF FkError(d4)
                  THEN /\ db' = Rollback(db, d4)
                       /\ resp' = Asked(c, "new_project", "error", <<l.f>>)
                  ELSE /\ db' = d4
                       /\ resp' = [Shown(c, "new_project", "created", {pid})
                                     EXCEPT !.input = <<l.f>>]

NewProject(c, Forms) ==
    /\ req[c] = Idle
    /\ \E f \in Forms : NewProject_commit(c, NewProject_read(c, f))
    /\ UNCHANGED <<backend, req, lim>>

\* DELETE FROM t WHERE project = pid.
DeleteOfProject(d, t, pid) == [d EXCEPT ![t] = {r \in @ : r.project # pid}]

\* Model.delete_instance(): DELETE FROM t WHERE id = i.
DeleteRow(d, t, i) == [d EXCEPT ![t] = {r \in @ : r.id # i}]

\* EditProject_read that lets an administrator through.
EditProject_read_AdminToo(c, pid, f) ==
    LET user == CurrentUser(c)
        project == IF Has(db.projects, pid) THEN Row(db.projects, pid) ELSE NoRow
        description == Strip(f.description)
        ville_form == Strip(f.ville)
    IN [op |-> "edit_project", f |-> f, project |-> project, description |-> description,
        form |-> <<pid, f>>,
        ville |-> IF ville_form # <<>> THEN ville_form
                  ELSE IF user.id = None THEN <<>> ELSE user.ville,
        out |-> IF ~LoggedIn(c) THEN "login_required"
                ELSE IF project.id = None THEN "not_found"
                ELSE IF user.id = None \/ ~Has(db.users, project.createur) THEN "error"
                ELSE IF project.createur # user.id /\ ~user.is_admin THEN "not_owner"
                ELSE IF description = <<>> THEN "validation"
                ELSE "go"]

\* edit_project, lines 607-628.
EditProject_read(c, pid, f) ==
    LET user == CurrentUser(c)
        project == IF Has(db.projects, pid) THEN Row(db.projects, pid) ELSE NoRow
        description == Strip(f.description)
        ville_form == Strip(f.ville)
    IN [op |-> "edit_project", f |-> f, project |-> project, description |-> description,
        form |-> <<pid, f>>,
        ville |-> IF ville_form # <<>> THEN ville_form
                  ELSE IF user.id = None THEN <<>> ELSE user.ville,
        out |-> IF ~LoggedIn(c) THEN "login_required"
                ELSE IF project.id = None THEN "not_found"
                ELSE IF user.id = None \/ ~Has(db.users, project.createur) THEN "error"
                ELSE IF project.createur # user.id THEN "not_owner"
                ELSE IF description = <<>> THEN "validation"
                ELSE "go"]

\* EditProject_commit that adds the needs sent to the needs stored.
EditProject_commit_KeepsNeeds(c, l) ==
    /\ session' = session
    /\ IF l.out # "go"
       THEN db' = db /\ resp' = Asked(c, "edit_project", l.out, l.form)
       ELSE LET pid == l.project.id
                d1 == Save(db, "projects",
                           [l.project EXCEPT !.description = l.description,
                                             !.ville = l.ville])
                d3 == CreateTextNeeds(d1, pid, l.f.besoins, 1)
                d4 == DeleteOfProject(d3, "links", pid)
                d5 == CreateLinks(d4, pid, l.f.urls, 1)
                d6 == SaveMediaFiles(d5, pid, l.f.medias, 1)
            IN /\ WithinBounds(d6)
               /\ IF \E d \in {d1, d3, d4, d5, d6} : FkError(d)
                  THEN /\ db' = Rollback(db, d6)
                       /\ resp' = Asked(c, "edit_project", "error", l.form)
                  ELSE /\ db' = d6
                       /\ resp' = [Shown(c, "edit_project", "updated", {pid})
                                     EXCEPT !.input = l.form]

\* edit_project, lines 630-657: project.save(), then the needs and the links
\* are deleted and created again, and medias are added, in one transaction.
EditProject_commit(c, l) ==
    /\ session' = session
    /\ IF l.out # "go"
       THEN db' = db /\ resp' = Asked(c, "edit_project", l.out, l.form)
       ELSE LET pid == l.project.id
                d1 == Save(db, "projects",
                           [l.project EXCEPT !.description = l.description,
                                             !.ville = l.ville])
                d2 == DeleteOfProject(d1, "needs", pid)
                d3 == CreateTextNeeds(d2, pid, l.f.besoins, 1)
                d4 == DeleteOfProject(d3, "links", pid)
                d5 == CreateLinks(d4, pid, l.f.urls, 1)
                d6 == SaveMediaFiles(d5, pid, l.f.medias, 1)
            IN /\ WithinBounds(d6)
               /\ IF \E d \in {d1, d2, d3, d4, d5, d6} : FkError(d)
                  THEN /\ db' = Rollback(db, d6)
                       /\ resp' = Asked(c, "edit_project", "error", l.form)
                  ELSE /\ db' = d6
                       /\ resp' = [Shown(c, "edit_project", "updated", {pid})
                                     EXCEPT !.input = l.form]

EditProject(c, Forms) ==
    /\ req[c] = Idle
    /\ \E pid \in 1..lim.projects, f \in Forms :
         EditProject_commit(c, EditProject_read(c, pid, f))
    /\ UNCHANGED <<backend, req, lim>>

\* DeleteProject_read with no check of who asks.
DeleteProject_read_AnyUser(c, pid) ==
    LET user == CurrentUser(c)
        project == IF Has(db.projects, pid) THEN Row(db.projects, pid) ELSE NoRow
    IN [op |-> "delete_project", pid |-> pid,
        out |-> IF ~LoggedIn(c) THEN "login_required"
                ELSE IF project.id = None THEN "not_found"
                ELSE IF user.id = None \/ ~Has(db.users, project.createur) THEN "error"
                ELSE IF FALSE THEN "forbidden"
                ELSE "go"]

\* delete_project, lines 851-864.
DeleteProject_read(c, pid) ==
    LET user == CurrentUser(c)
        project == IF Has(db.projects, pid) THEN Row(db.projects, pid) ELSE NoRow
    IN [op |-> "delete_project", pid |-> pid,
        out |-> IF ~LoggedIn(c) THEN "login_required"
                ELSE IF project.id = None THEN "not_found"
                ELSE IF user.id = None \/ ~Has(db.users, project.createur) THEN "error"
                ELSE IF project.createur # user.id /\ ~user.is_admin THEN "forbidden"
                ELSE "go"]

\* DeleteProject_commit with no transaction around the statements: the ones
\* before the refused one stay applied.
DeleteProject_commit_NoRollback(c, l) ==
    /\ session' = session
    /\ IF l.out # "go"
       THEN db' = db /\ resp' = Asked(c, "delete_project", l.out, <<l.pid>>)
       ELSE LET d1 == DeleteOfProject(db, "comments", l.pid)
                d2 == DeleteOfProject(d1, "needs", l.pid)
                d3 == DeleteOfProject(d2, "links", l.pid)
                d4 == DeleteOfProject(d3, "medias", l.pid)
                d5 == DeleteRow(d4, "projects", l.pid)
            IN IF \E d \in {d1, d2, d3, d4, d5} : FkError(d)
               THEN /\ db' = IF FkError(d1) THEN db ELSE d1
                    /\ resp' = Asked(c, "delete_project", "error", <<l.pid>>)
               ELSE /\ db' = d5
                    /\ resp' = [Shown(c, "delete_project", "deleted", {l.pid})
                                  EXCEPT !.input = <<l.pid>>]

\* delete_project, lines 866-877: the dependents by project id, then the
\* project row, in one transaction.
DeleteProject_commit(c, l) ==
    /\ session' = session
    /\ IF l.out # "go"
       THEN db' = db /\ resp' = Asked(c, "delete_project", l.out, <<l.pid>>)
       ELSE LET d1 == DeleteOfProject(db, "comments", l.pid)
                d2 == DeleteOfProject(d1, "needs", l.pid)
                d3 == DeleteOfProject(d2, "links", l.pid)
                d4 == DeleteOfProject(d3, "medias", l.pid)
                d5 == DeleteRow(d4, "projects", l.pid)
            IN IF \E d \in {d1, d2, d3, d4, d5} : FkError(d)
               THEN /\ db' = db
                    /\ resp' = Asked(c, "delete_project", "error", <<l.pid>>)
               ELSE /\ db' = d5
                    /\ resp' = [Shown(c, "delete_project", "deleted", {l.pid})
                                  EXCEPT !.input = <<l.pid>>]

DeleteProject(c) ==
    /\ req[c] = Idle
    /\ \E pid \in 1..lim.projects : DeleteProject_commit(c, DeleteProject_read(c, pid))
    /\ UNCHANGED <<backend, req, lim>>


\* -------------------------------------------------------------- moderation
Actions == {"set_pending", "validate", "archive", "unarchive", "delete", "bogus"}

\* manage_projects, lines 794-807.
ManageProjects_read(c, pid, action) ==
    LET user == CurrentUser(c)
        project == IF Has(db.projects, pid) THEN Row(db.projects, pid) ELSE NoRow
    IN [op |-> "manage_projects", project |-> project, action |-> action,
        out |-> IF user.id = None THEN "admin_required"
                ELSE IF ~user.is_admin THEN "admin_required"
                ELSE IF project.id = None THEN "not_found"
                ELSE "go"]

\* ApplyAction with a validate that leaves the soft-delete flag as it is.
ApplyAction_KeepsFlag(project, action) ==
    CASE action = "set_pending" ->
           [project EXCEPT !.status = "pending", !.deleted_by_admin = FALSE]
      [] action = "validate" -> [project EXCEPT !.status = "validated"]
      [] action = "archive" ->
           IF project.status = "validated" THEN [project EXCEPT !.status = "archived"]
           ELSE project
      [] action = "unarchive" ->
           IF project.status = "archived" THEN [project EXCEPT !.status = "validated"]
           ELSE project
      [] action = "delete" -> [project EXCEPT !.deleted_by_admin = TRUE]
      [] OTHER -> project

\* ApplyAction with an archive that does not look at the status.
ApplyAction_ArchiveAny(project, action) ==
    CASE action = "set_pending" ->
           [project EXCEPT !.status = "pending", !.deleted_by_admin = FALSE]
      [] action = "validate" ->
           [project EXCEPT !.status = "validated", !.deleted_by_admin = FALSE]
      [] action = "archive" -> [project EXCEPT !.status = "archived"]
      [] action = "unarchive" ->
           IF project.status = "archived" THEN [project EXCEPT !.status = "validated"]
           ELSE project
      [] action = "delete" -> [project EXCEPT !.deleted_by_admin = TRUE]
      [] OTHER -> project

\* manage_projects, lines 810-829: the action on the project object read.
ApplyAction(project, action) ==
    CASE action = "set_pending" ->
           [project EXCEPT !.status = "pending", !.deleted_by_admin = FALSE]
      [] action = "validate" ->
           [project EXCEPT !.status = "validated", !.deleted_by_admin = FALSE]
      [] action = "archive" ->
           IF project.status = "validated" THEN [project EXCEPT !.status = "archived"]
           ELSE project
      [] action = "unarchive" ->
           IF project.status = "archived" THEN [project EXCEPT !.status = "validated"]
           ELSE project
      [] action = "delete" -> [project EXCEPT !.deleted_by_admin = TRUE]
      [] OTHER -> project

\* manage_projects, lines 809-834: project.save() and the same flash whatever
\* the action did.
ManageProjects_commit(c, l) ==
    /\ session' = session
    /\ IF l.out # "go"
       THEN db' = db /\ resp' = Resp(c, "manage_projects", l.out)
       ELSE /\ db' = Save(db, "projects", ApplyAction(l.project, l.action))
            /\ resp' = [Shown(c, "manage_projects", "updated", {l.project.id})
                          EXCEPT !.action = l.action]

ManageProjects(c, Acts) ==
    /\ req[c] = Idle
    /\ \E pid \in 0..lim.projects, action \in Acts :
         ManageProjects_commit(c, ManageProjects_read(c, pid, action))
    /\ UNCHANGED <<backend, req, lim>>

\* ------------------------------------------------------------ public pages
\* IndexQuery without the soft-delete condition.
IndexQuery_NoFlag(d) == {p \in d.projects : p.status = "validated"}

\* index, lines 319-328: the query of the home page.
IndexQuery(d) == {p \in d.projects : p.status = "validated" /\ p.deleted_by_admin = FALSE}

\* vision_et_mission, lines 336-341: the query of the page.
VisionQuery(d) == d.projects

Index(c) ==
    /\ req[c] = Idle
    /\ resp' = Shown(c, "index", "page", Ids(IndexQuery(db)))
    /\ UNCHANGED <<backend, db, session, req, lim>>

VisionEtMission(c) ==
    /\ req[c] = Idle
    /\ resp' = Shown(c, "vision_et_mission", "page", Ids(VisionQuery(db)))
    /\ UNCHANGED <<backend, db, session, req, lim>>

\* project_detail, lines 353-357.
ProjectDetail_read(c, pid) ==
    LET project == IF Has(db.projects, pid) THEN Row(db.projects, pid) ELSE NoRow
    IN [op |-> "project_detail", project |-> project,
        out |-> IF project.id = None THEN "not_found" ELSE "go"]

\* project_detail, lines 359-397: visits_count += 1 on the object read,
\* project.save(), and the page of the project.
ProjectDetail_commit(c, l) ==
    /\ session' = session
    /\ IF l.out # "go"
       THEN db' = db /\ resp' = Resp(c, "project_detail", l.out)
       ELSE /\ l.project.visits_count < lim.visits
            /\ db' = Save(db, "projects", [l.project EXCEPT !.visits_count = @ + 1])
            /\ resp' = Shown(c, "project_detail", "page", {l.project.id})

ProjectDetail(c) ==
    /\ req[c] = Idle
    /\ \E pid \in 1..lim.projects : ProjectDetail_commit(c, ProjectDetail_read(c, pid))
    /\ UNCHANGED <<backend, req, lim>>

\* ------------------------------------------------------------------ ledger
RECURSIVE SumAmounts(_)
SumAmounts(rows) ==
    IF rows = {} THEN 0
    ELSE LET r == CHOOSE x \in rows : TRUE IN r.amount + SumAmounts(rows \ {r})

\* SELECT SUM(amount) FROM contribution WHERE need = nid (or 0).
TotalContrib(d, nid) == SumAmounts({x \in d.contribs : x.need = nid})

\* Contribute_read that refuses only the negative amounts.
Contribute_read_ZeroPasses(c, nid, raw) ==
    LET user == CurrentUser(c)
        need == IF Has(db.needs, nid) THEN Row(db.needs, nid) ELSE NoRow
        raw_amount == Strip(raw)
        amount == IF IsInt(raw_amount) THEN IntOf(raw_amount) ELSE 0
        total_contrib == TotalContrib(db, nid)
        remaining == (IF need.id = None THEN 0 ELSE need.amount_goal) - total_contrib
    IN [op |-> "contribute", need |-> nid, user |-> user.id, amount |-> amount, raw |-> raw,
        remaining |-> remaining,
        out |-> IF ~LoggedIn(c) THEN "login_required"
                ELSE IF need.id = None THEN "not_found"
                ELSE IF amount < 0 THEN "invalid_amount"
                ELSE IF need.is_money /\ need.amount_goal # None /\ amount > remaining
                     THEN "over_cap"
                ELSE "go"]

\* Contribute_read that refuses an amount equal to what remains.
Contribute_read_StrictCap(c, nid, raw) ==
    LET user == CurrentUser(c)
        need == IF Has(db.needs, nid) THEN Row(db.needs, nid) ELSE NoRow
        raw_amount == Strip(raw)
        amount == IF IsInt(raw_amount) THEN IntOf(raw_amount) ELSE 0
        total_contrib == TotalContrib(db, nid)
        remaining == (IF need.id = None THEN 0 ELSE need.amount_goal) - total_contrib
    IN [op |-> "contribute", need |-> nid, user |-> user.id, amount |-> amount, raw |-> raw,
        remaining |-> remaining,
        out |-> IF ~LoggedIn(c) THEN "login_required"
                ELSE IF need.id = None THEN "not_found"
                ELSE IF amount <= 0 THEN "invalid_amount"
                ELSE IF need.is_money /\ need.amount_goal # None /\ amount >= remaining
                     THEN "over_cap"
                ELSE "go"]

\* contribute_to_need, lines 884-913.
Contribute_read(c, nid, raw) ==
    LET user == CurrentUser(c)
        need == IF Has(db.needs, nid) THEN Row(db.needs, nid) ELSE NoRow
        raw_amount == Strip(raw)
        amount == IF IsInt(raw_amount) THEN IntOf(raw_amount) ELSE 0
        total_contrib == TotalContrib(db, nid)
        remaining == (IF need.id = None THEN 0 ELSE need.amount_goal) - total_contrib
    IN [op |-> "contribute", need |-> nid, user |-> user.id, amount |-> amount, raw |-> raw,
        remaining |-> remaining,
        out |-> IF ~LoggedIn(c) THEN "login_required"
                ELSE IF need.id = None THEN "not_found"
                ELSE IF amount <= 0 THEN "invalid_amount"
                ELSE IF need.is_money /\ need.amount_goal # None /\ amount > remaining
                     THEN "over_cap"
                ELSE "go"]

\* Contribute_commit that marks the need fulfilled when the goal is reached.
Contribute_commit_Fulfils(c, l) ==
    /\ session' = session
    /\ IF l.out # "go"
       THEN /\ db' = db
            /\ resp' = IF l.out = "over_cap"
                       THEN [Told(c, "contribute", l.out, l.remaining) EXCEPT !.input = <<l.raw, l.need>>]
                       ELSE Asked(c, "contribute", l.out, <<l.raw, l.need>>)
       ELSE LET d1 == Insert(db, "contribs",
                             [need |-> l.need, user |-> l.user, amount |-> l.amount])
            IN /\ WithinBounds(d1)
               /\ IF l.user = None \/ FkError(d1)
                  THEN /\ db' = Rollback(db, d1)
                       /\ resp' = Asked(c, "contribute", "error", <<l.raw, l.need>>)
                  ELSE /\ db' = [d1 EXCEPT !.needs =
                                  {IF n.id = l.need /\ l.amount = l.remaining
                                   THEN [n EXCEPT !.is_fulfilled = TRUE] ELSE n : n \in @}]
                       /\ resp' = Asked(c, "contribute", "accepted", <<l.raw, l.need>>)

\* contribute_to_need, lines 915-924: Contribution.create.
Contribute_commit(c, l) ==
    /\ session' = session
    /\ IF l.out # "go"
       THEN /\ db' = db
            /\ resp' = IF l.out = "over_cap"
                       THEN [Told(c, "contribute", l.out, l.remaining) EXCEPT !.input = <<l.raw, l.need>>]
                       ELSE Asked(c, "contribute", l.out, <<l.raw, l.need>>)
       ELSE LET d1 == Insert(db, "contribs",
                             [need |-> l.need, user |-> l.user, amount |-> l.amount])
            IN /\ WithinBounds(d1)
               /\ IF l.user = None \/ FkError(d1)
                  THEN /\ db' = Rollback(db, d1)
                       /\ resp' = Asked(c, "contribute", "error", <<l.raw, l.need>>)
                  ELSE /\ db' = d1
                       /\ resp' = Asked(c, "contribute", "accepted", <<l.raw, l.need>>)

RawAmounts == {<<"1">>, <<" ", "2">>, <<"3">>, <<"0">>, <<"-", "1">>, <<"x">>, <<>>}

Contribute(c, Amounts) ==
    /\ req[c] = Idle
    /\ \E nid \in 1..lim.needs, raw \in Amounts :
         Contribute_commit(c, Contribute_read(c, nid, raw))
    /\ UNCHANGED <<backend, req, lim>>


\* ---------------------------------------------------------------- comments
\* The columns of Comment (models.py).
CommentFields == {"id", "project", "auteur", "contenu", "parent", "created_at"}

RawParents == {<<>>, <<"1">>, <<"2">>, <<"3">>, <<"x">>}
RawContents == {<<"k">>, <<" ">>}

\* add_comment, lines 666-685.
AddComment_read(c, pid, f) ==
    LET user == CurrentUser(c)
        contenu == Strip(f.contenu)
        parent_id == f.parent_id
    IN [op |-> "add_comment", project |-> pid, auteur |-> user.id, contenu |-> contenu,
        form |-> <<pid, f.contenu, f.parent_id>>,
        parent |-> IF parent_id # <<>> /\ IsInt(parent_id) /\ Has(db.comments, IntOf(parent_id))
                   THEN IntOf(parent_id) ELSE None,
        out |-> IF contenu = <<>> THEN "empty"
                ELSE IF ~Has(db.projects, pid) THEN "not_found"
                ELSE IF parent_id # <<>> /\ ~IsInt(parent_id) THEN "error"
                ELSE "go"]

\* add_comment, lines 687-695: Comment.create; auteur is NOT NULL.
AddComment_commit(c, l) ==
    /\ session' = session
    /\ IF l.out # "go"
       THEN db' = db /\ resp' = Asked(c, "add_comment", l.out, l.form)
       ELSE LET d1 == Insert(db, "comments",
                             [project |-> l.project, auteur |-> l.auteur,
                              contenu |-> l.contenu, parent |-> l.parent])
            IN /\ WithinBounds(d1)
               /\ IF l.auteur = None \/ FkError(d1)
                  THEN /\ db' = Rollback(db, d1)
                       /\ resp' = Asked(c, "add_comment", "error", l.form)
                  ELSE /\ db' = d1
                       /\ resp' = Asked(c, "add_comment", "added", l.form)

CommentForms == [contenu : RawContents, parent_id : RawParents]

AddCommentWith(c, Forms) ==
    /\ req[c] = Idle
    /\ \E pid \in 1..lim.projects, f \in Forms :
         AddComment_commit(c, AddComment_read(c, pid, f))
    /\ UNCHANGED <<backend, req, lim>>

AddComment(c) == AddCommentWith(c, CommentForms)

\* edit_comment, lines 700-715.
EditComment_read(c, kid, raw) ==
    LET user == CurrentUser(c)
        comment == IF Has(db.comments, kid) THEN Row(db.comments, kid) ELSE NoRow
        new_content == Strip(raw)
    IN [op |-> "edit_comment", comment |-> comment, new_content |-> new_content,
        form |-> <<kid, raw>>,
        out |-> IF comment.id = None THEN "not_found"
                ELSE IF user.id = None \/ ~Has(db.users, comment.auteur) THEN "error"
                ELSE IF comment.auteur # user.id THEN "not_author"
                ELSE IF new_content = <<>> THEN "empty"
                ELSE "go"]

\* edit_comment, lines 717-722: Comment.updated_at is read before
\* comment.save(); Comment has no such column, and the read raises.
EditComment_commit(c, l) ==
    /\ session' = session
    /\ IF l.out # "go"
       THEN db' = db /\ resp' = Asked(c, "edit_comment", l.out, l.form)
       ELSE IF "updated_at" \notin CommentFields
       THEN db' = db /\ resp' = Asked(c, "edit_comment", "error", l.form)
       ELSE /\ db' = Save(db, "comments", [l.comment EXCEPT !.contenu = l.new_content])
            /\ resp' = Asked(c, "edit_comment", "edited", l.form)

EditComment(c) ==
    /\ req[c] = Idle
    /\ \E kid \in 1..lim.comments, raw \in RawContents \cup {<<"m">>} :
         EditComment_commit(c, EditComment_read(c, kid, raw))
    /\ UNCHANGED <<backend, req, lim>>

\* DeleteComment_read with no check of who asks.
DeleteComment_read_AnyUser(c, kid) ==
    LET user == CurrentUser(c)
        comment == IF Has(db.comments, kid) THEN Row(db.comments, kid) ELSE NoRow
    IN [op |-> "delete_comment", kid |-> kid,
        out |-> IF comment.id = None THEN "not_found"
                ELSE IF user.id = None \/ ~Has(db.users, comment.auteur) THEN "error"
                ELSE IF FALSE THEN "not_author"
                ELSE "go"]

\* delete_comment, lines 733-743.
DeleteComment_read(c, kid) ==
    LET user == CurrentUser(c)
        comment == IF Has(db.comments, kid) THEN Row(db.comments, kid) ELSE NoRow
    IN [op |-> "delete_comment", kid |-> kid,
        out |-> IF comment.id = None THEN "not_found"
                ELSE IF user.id = None \/ ~Has(db.users, comment.auteur) THEN "error"
                ELSE IF comment.auteur # user.id THEN "not_author"
                ELSE "go"]

\* peewee's Model.delete_instance(recursive=True) with delete_nullable left
\* False: the rows that point at the comment through the nullable foreign key
\* `parent` get parent = NULL, then the comment row is deleted.
DeleteInstanceRecursive(d, kid) ==
    DeleteRow([d EXCEPT !.comments = {IF k.parent = kid THEN [k EXCEPT !.parent = None]
                                      ELSE k : k \in @}],
              "comments", kid)

\* delete_comment, lines 745-749.
DeleteComment_commit(c, l) ==
    /\ session' = session
    /\ IF l.out # "go"
       THEN db' = db /\ resp' = Asked(c, "delete_comment", l.out, <<l.kid>>)
       ELSE /\ db' = DeleteInstanceRecursive(db, l.kid)
            /\ resp' = [Told(c, "delete_comment", "deleted", l.kid) EXCEPT !.input = <<l.kid>>]

DeleteComment(c) ==
    /\ req[c] = Idle
    /\ \E kid \in 1..lim.comments : DeleteComment_commit(c, DeleteComment_read(c, kid))
    /\ UNCHANGED <<backend, req, lim>>

\* --------------------------------------------------------- account deletion
\* One statement of a transaction: the tables after it, and whether the
\* backend has refused a statement so far.
Stmt(st, d) == [d |-> d, bad |-> st.bad \/ FkError(d)]

\* delete_account, lines 770-777: for each project of the user (in id order),
\* its needs, links, medias and comments, then the project row.
RECURSIVE DeleteOwned(_, _)
DeleteOwned(st, pids) ==
    IF pids = {} THEN st
    ELSE LET p == CHOOSE x \in pids : \A y \in pids : x <= y
             s1 == Stmt(st, DeleteOfProject(st.d, "needs", p))
             s2 == Stmt(s1, DeleteOfProject(s1.d, "links", p))
             s3 == Stmt(s2, DeleteOfProject(s2.d, "medias", p))
             s4 == Stmt(s3, DeleteOfProject(s3.d, "comments", p))
             s5 == Stmt(s4, DeleteRow(s4.d, "projects", p))
         IN DeleteOwned(s5, pids \ {p})

\* delete_account, lines 761-785 (POST).
DeleteAccount_commit(c, uid) ==
    IF ~LoggedIn(c)
    THEN /\ db' = db /\ session' = session
         /\ resp' = Resp(c, "delete_account", "login_required")
    ELSE IF uid = None
    THEN /\ db' = db /\ session' = session
         /\ resp' = Resp(c, "delete_account", "error")
    ELSE LET s1 == Stmt([d |-> db, bad |-> FALSE],
                        [db EXCEPT !.comments = {k \in @ : k.auteur # uid}])
             s2 == DeleteOwned(s1, {p.id : p \in {q \in s1.d.projects : q.createur = uid}})
             s3 == Stmt(s2, DeleteRow(s2.d, "users", uid))
         IN IF s3.bad
            THEN /\ db' = db /\ session' = session
                 /\ resp' = Resp(c, "delete_account", "error")
            ELSE /\ db' = s3.d
                 /\ session' = [session EXCEPT ![c] = None]
                 /\ resp' = Told(c, "delete_account", "deleted", uid)

DeleteAccount(c) ==
    /\ req[c] = Idle
    /\ DeleteAccount_commit(c, CurrentUser(c).id)
    /\ UNCHANGED <<backend, req, lim>>


\* ------------------------------------------------- requests that interleave
\* The first part of a request: its reads, kept in its locals.
Start(c, l) ==
    /\ req[c] = Idle
    /\ l.out = "go"
    /\ req' = [req EXCEPT ![c] = l]
    /\ UNCHANGED <<backend, db, session, resp, lim>>

\* A request that returns before its first write (a redirect with a flash
\* message) is over at once.
Early(c, l) ==
    /\ req[c] = Idle
    /\ l.out # "go"
    /\ UNCHANGED <<backend, req, lim>>

\* The request of client c is over.
Finish(c, op) ==
    /\ req[c].op = op
    /\ req' = [req EXCEPT ![c] = Idle]
    /\ UNCHANGED <<backend, lim>>

SignupBegin(c, Forms) ==
    \E f \in Forms :
        LET l == Signup_read(c, f)
        IN Start(c, l) \/ (Early(c, l) /\ Signup_commit(c, l))
SignupEnd(c) == Finish(c, "signup") /\ Signup_commit(c, req[c])

ContributeBegin(c, Amounts) ==
    \E nid \in 1..lim.needs, raw \in Amounts :
        LET l == Contribute_read(c, nid, raw)
        IN Start(c, l) \/ (Early(c, l) /\ Contribute_commit(c, l))
ContributeEnd(c) == Finish(c, "contribute") /\ Contribute_commit(c, req[c])

ManageProjectsBegin(c, Acts) ==
    \E pid \in 0..lim.projects, action \in Acts :
        LET l == ManageProjects_read(c, pid, action)
        IN Start(c, l) \/ (Early(c, l) /\ ManageProjects_commit(c, l))
ManageProjectsEnd(c) == Finish(c, "manage_projects") /\ ManageProjects_commit(c, req[c])

ProjectDetailBegin(c) ==
    \E pid \in 1..lim.projects :
        LET l == ProjectDetail_read(c, pid)
        IN Start(c, l) \/ (Early(c, l) /\ ProjectDetail_commit(c, l))
ProjectDetailEnd(c) == Finish(c, "project_detail") /\ ProjectDetail_commit(c, req[c])

EditProjectBegin(c, Forms) ==
    \E pid \in 1..lim.projects, f \in Forms :
        LET l == EditProject_read(c, pid, f)
        IN Start(c, l) \/ (Early(c, l) /\ EditProject_commit(c, l))
EditProjectEnd(c) == Finish(c, "edit_project") /\ EditProject_commit(c, req[c])

\* ---------------------------------------------------------------- seeding
\* seed_admin and seed_owner: the email, the password and the town of each.
Seeds ==
    {[email |-> AdminEmail, pwd |-> AdminPwd, ville |-> <<"c">>],
     [email |-> OwnerEmail, pwd |-> OwnerPwd, ville |-> <<"l">>]}

\* The flags that the seeding sets on a user that is there already.
Promoted(u) ==
    [u EXCEPT !.is_admin = TRUE, !.is_verified = TRUE, !.verification_code = NoCode,
              !.verification_created_at = NoStamp]

\* User.get_or_create, its SELECT by email.
Seed_read(c, seed) ==
    LET found == {u \in db.users : u.email = seed.email}
    IN [op |-> "seed", seed |-> seed, out |-> "go",
        user |-> IF found = {} THEN NoRow ELSE CHOOSE u \in found : TRUE]

\* The rest of the seeding: for a user found, user.save() with the flags; for
\* none found, the INSERT, and when the unique index refuses it, the SELECT
\* again and user.save() with the flags.
Seed_commit(c, l) ==
    /\ session' = session
    /\ IF l.user.id # None
       THEN /\ db' = Save(db, "users", Promoted(l.user))
            /\ resp' = Resp(c, "seed", "updated")
       ELSE LET d1 == Insert(db, "users",
                             [email |-> l.seed.email, password_hash |-> Hash(l.seed.pwd),
                              ville |-> l.seed.ville, is_verified |-> TRUE,
                              verification_code |-> NoCode,
                              verification_created_at |-> NoStamp, is_admin |-> TRUE])
                there == {u \in db.users : u.email = l.seed.email}
            IN /\ WithinBounds(d1)
               /\ IF there # {}
                  THEN /\ db' = Save(Rollback(db, d1), "users", Promoted(CHOOSE u \in there : TRUE))
                       /\ resp' = Resp(c, "seed", "updated_after_conflict")
                  ELSE /\ db' = d1
                       /\ resp' = Resp(c, "seed", "created")

SeedBegin(c) == \E seed \in Seeds : Start(c, Seed_read(c, seed))
SeedEnd(c) == Finish(c, "seed") /\ Seed_commit(c, req[c])

\* ------------------------------------------------------------------ forms
Png == [filename |-> "a.png", suffix |-> ".png"]
Exe == [filename |-> "a.exe", suffix |-> ".exe"]
NoFile == [filename |-> "", suffix |-> ""]

\* A project with no dependents.
PlainForms ==
    [description : {<<" ", "d">>, <<" ">>}, ville : {<<>>},
     besoins_texte : {<<>>}, besoins_montant : {<<>>}, urls : {<<>>}, medias : {<<>>}]

\* A project and its needs.
NeedForms ==
    [description : {<<"d">>}, ville : {<<>>},
     besoins_texte : {<<>>, << <<"n">> >>, << <<"n">>, <<"n">> >>, << <<" ">>, <<"n">> >>},
     besoins_montant : {<<>>, << <<"2">> >>, << <<" ", "1">> >>, << <<"x">> >>,
                        << <<"0">> >>, << <<"-", "1">> >>, << <<"2">>, <<"1">> >>,
                        << <<>>, <<"3">> >>},
     urls : {<<>>}, medias : {<<>>}]

\* A project with needs, links and medias.
FullForms ==
    [description : {<<"d">>}, ville : {<<>>},
     besoins_texte : {<<>>, << <<"n">> >>},
     besoins_montant : {<<>>, << <<"2">> >>},
     urls : {<<>>, << <<"h">> >>, << <<" ">> >>},
     medias : {<<>>, <<Png>>, <<Exe>>, <<NoFile>>}]

EditForms ==
    [description : {<<"d">>, <<"e">>, <<" ">>}, ville : {<<>>, <<"v">>},
     besoins : {<<>>, << <<"n">> >>, << <<" ">>, <<"m">> >>},
     urls : {<<>>, << <<"h">> >>}, medias : {<<>>, <<Png>>}]

\* ---------------------------------------------------------- specifications
\* Moderation and the public pages, one request after the other.
LifecycleLim ==
    [clients |-> LcClients, users |-> 2, projects |-> LcProjects, needs |-> 0, medias |-> 0,
     links |-> 0, comments |-> 0, contribs |-> 0, visits |-> LcVisits]

NextLifecycle ==
    \/ \E c \in Clients : Login(c, AdminLogin)
    \/ \E c \in Clients : Logout(c)
    \/ \E c \in Clients : NewProject(c, PlainForms)
    \/ \E c \in Clients : ManageProjects(c, Actions)
    \/ \E c \in Clients : Index(c)
    \/ \E c \in Clients : VisionEtMission(c)
    \/ \E c \in Clients : ProjectDetail(c)

SpecLifecycle == Init(LifecycleLim) /\ [][NextLifecycle]_vars


\* The ledger, one request after the other.
LedgerLim ==
    [clients |-> LdClients, users |-> 2, projects |-> LdProjects, needs |-> LdNeeds,
     medias |-> 0, links |-> 0, comments |-> 0, contribs |-> LdContribs, visits |-> 0]

LedgerEditForms ==
    [description : {<<"e">>, <<" ">>}, ville : {<<>>}, besoins : {<<>>, << <<"m">> >>},
     urls : {<<>>}, medias : {<<>>}]

NextLedger ==
    \/ \E c \in Clients : Login(c, GoodLogins)
    \/ \E c \in Clients : NewProject(c, NeedForms)
    \/ \E c \in Clients : EditProject(c, LedgerEditForms)
    \/ \E c \in Clients : DeleteProject(c)
    \/ \E c \in Clients : Contribute(c, RawAmounts)

SpecLedger == Init(LedgerLim) /\ [][NextLedger]_vars

\* The ledger, the requests of two clients interleaved; nothing is deleted.
ConcLedgerLim ==
    [clients |-> ClClients, users |-> 2, projects |-> ClProjects, needs |-> ClNeeds,
     medias |-> 0, links |-> 0, comments |-> 0, contribs |-> ClContribs, visits |-> 0]

MoneyNeedForms ==
    [description : {<<"d">>}, ville : {<<>>}, besoins_texte : {<< <<"n">> >>},
     besoins_montant : {<< <<"2">> >>}, urls : {<<>>}, medias : {<<>>}]

NextConcLedger ==
    \/ \E c \in Clients : Login(c, GoodLogins)
    \/ \E c \in Clients : NewProject(c, MoneyNeedForms)
    \/ \E c \in Clients : ContributeBegin(c, {<<"1">>, <<" ", "2">>})
    \/ \E c \in Clients : ContributeEnd(c)

SpecConcLedger == Init(ConcLedgerLim) /\ [][NextConcLedger]_vars

\* A project with its needs, links, medias, comments and contributions.
CascadeLim ==
    [clients |-> CaClients, users |-> 2, projects |-> CaProjects, needs |-> CaNeeds,
     medias |-> CaMedias, links |-> CaLinks, comments |-> CaComments,
     contribs |-> CaContribs, visits |-> 0]

NextCascade ==
    \/ \E c \in Clients : Login(c, GoodLogins)
    \/ \E c \in Clients : NewProject(c, FullForms)
    \/ \E c \in Clients : AddComment(c)
    \/ \E c \in Clients : Contribute(c, RawAmounts)
    \/ \E c \in Clients : DeleteProject(c)

SpecCascade == Init(CascadeLim) /\ [][NextCascade]_vars

\* The comment tree.
CommentsLim ==
    [clients |-> CmClients, users |-> 2, projects |-> CmProjects, needs |-> 0, medias |-> 0,
     links |-> 0, comments |-> CmComments, contribs |-> 0, visits |-> 0]

NextComments ==
    \/ \E c \in Clients : Login(c, GoodLogins)
    \/ \E c \in Clients : NewProject(c, PlainForms)
    \/ \E c \in Clients : AddComment(c)
    \/ \E c \in Clients : EditComment(c)
    \/ \E c \in Clients : DeleteComment(c)

SpecComments == Init(CommentsLim) /\ [][NextComments]_vars

\* Moderation, the page of a project and its edition, interleaved.
ConcLifecycleLim ==
    [clients |-> CvClients, users |-> 2, projects |-> CvProjects, needs |-> 0, medias |-> 0,
     links |-> 0, comments |-> 0, contribs |-> 0, visits |-> CvVisits]

PlainEditForms ==
    [description : {<<"e">>}, ville : {<<>>}, besoins : {<<>>}, urls : {<<>>},
     medias : {<<>>}]

NextConcLifecycle ==
    \/ \E c \in Clients : Login(c, AdminLogin)
    \/ \E c \in Clients : NewProject(c, PlainForms)
    \/ \E c \in Clients : ManageProjectsBegin(c, {"validate", "delete"})
    \/ \E c \in Clients : ManageProjectsEnd(c)
    \/ \E c \in Clients : ProjectDetailBegin(c)
    \/ \E c \in Clients : ProjectDetailEnd(c)
    \/ \E c \in Clients : EditProjectBegin(c, PlainEditForms)
    \/ \E c \in Clients : EditProjectEnd(c)

SpecConcLifecycle == Init(ConcLifecycleLim) /\ [][NextConcLifecycle]_vars

\* Registration, the requests of two clients interleaved.
ConcSignupLim ==
    [clients |-> CsClients, users |-> CsUsers, projects |-> 0, needs |-> 0, medias |-> 0,
     links |-> 0, comments |-> 0, contribs |-> 0, visits |-> 0]

NextConcSignup ==
    \/ \E c \in Clients : SignupBegin(c, GoodSignups)
    \/ \E c \in Clients : SignupEnd(c)
    \/ \E c \in Clients : Verify(c)
    \/ \E c \in Clients : Login(c, LoginForms)

SpecConcSignup == Init(ConcSignupLim) /\ [][NextConcSignup]_vars

\* Accounts: signup, verification, login, one request after the other.
AccountsLim ==
    [clients |-> AcClients, users |-> AcUsers, projects |-> 0, needs |-> 0, medias |-> 0,
     links |-> 0, comments |-> 0, contribs |-> 0, visits |-> 0]

NextAccounts ==
    \/ \E c \in Clients : Signup(c, SignupForms)
    \/ \E c \in Clients : Verify(c)
    \/ \E c \in Clients : Login(c, LoginForms)
    \/ \E c \in Clients : Logout(c)

SpecAccounts == Init(AccountsLim) /\ [][NextAccounts]_vars

\* Deletion of an account and of a project, with their dependents.
AccountDeletionLim ==
    [clients |-> AdClients, users |-> 2, projects |-> AdProjects, needs |-> AdNeeds,
     medias |-> 1, links |-> 1, comments |-> AdComments,
     contribs |-> AdContribs, visits |-> 0]

\* A project with a need, a link and a media, or with none.
DependentForms ==
    {[description |-> <<"d">>, ville |-> <<>>, besoins_texte |-> << <<"n">> >>,
      besoins_montant |-> <<>>, urls |-> << <<"h">> >>, medias |-> <<Png>>],
     [description |-> <<"d">>, ville |-> <<>>, besoins_texte |-> <<>>,
      besoins_montant |-> <<>>, urls |-> <<>>, medias |-> <<>>]}

NextAccountDeletion ==
    \/ \E c \in Clients : Login(c, GoodLogins)
    \/ \E c \in Clients : NewProject(c, DependentForms)
    \/ \E c \in Clients : AddComment(c)
    \/ \E c \in Clients : Contribute(c, {<<"1">>})
    \/ \E c \in Clients : DeleteProject(c)
    \/ \E c \in Clients : DeleteAccount(c)

SpecAccountDeletion == Init(AccountDeletionLim) /\ [][NextAccountDeletion]_vars

\* Contributions to the need of a project: capped (goal 3), or not a money
\* need.
ContributeLim ==
    [clients |-> CoClients, users |-> 2, projects |-> CoProjects, needs |-> CoNeeds,
     medias |-> 0, links |-> 0, comments |-> 0, contribs |-> CoContribs, visits |-> 0]

GoalForms ==
    [description : {<<"d">>}, ville : {<<>>}, besoins_texte : {<< <<"n">> >>},
     besoins_montant : {<< <<"3">> >>, <<>>}, urls : {<<>>}, medias : {<<>>}]

NextContribute ==
    \/ \E c \in Clients : Login(c, AdminLogin)
    \/ \E c \in Clients : NewProject(c, GoalForms)
    \/ \E c \in Clients : Contribute(c, {<<"1">>, <<" ", "2">>, <<"0">>, <<"-", "1">>, <<"x">>})

SpecContribute == Init(ContributeLim) /\ [][NextContribute]_vars

\* Comments and replies on two projects.
ThreadsLim ==
    [clients |-> ThClients, users |-> 2, projects |-> ThProjects, needs |-> 0, medias |-> 0,
     links |-> 0, comments |-> ThComments, contribs |-> 0, visits |-> 0]

NextThreads ==
    \/ \E c \in Clients : Login(c, AdminLogin)
    \/ \E c \in Clients : NewProject(c, PlainForms)
    \/ \E c \in Clients : AddComment(c)

SpecThreads == Init(ThreadsLim) /\ [][NextThreads]_vars

\* Who may delete a project: an administrator's project, and a user who is
\* not an administrator.
RightsLim ==
    [clients |-> RiClients, users |-> RiUsers, projects |-> RiProjects, needs |-> RiNeeds,
     medias |-> 1, links |-> 1, comments |-> 0, contribs |-> 0, visits |-> 0]

NextRights ==
    \/ \E c \in Clients : Signup(c, UserSignup)
    \/ \E c \in Clients : VerifyWith(c, UserVerify)
    \/ \E c \in Clients : Login(c, AdminLogin \cup UserLogin)
    \/ \E c \in Clients : NewProject(c, DependentForms)
    \/ \E c \in Clients : DeleteProject(c)

SpecRights == Init(RightsLim) /\ [][NextRights]_vars

\* The verification gate: a user signs up, verifies, logs in from two
\* browsers, deletes the account, signs up again.
GateLim ==
    [clients |-> GaClients, users |-> GaUsers, projects |-> GaProjects, needs |-> GaNeeds,
     medias |-> 1, links |-> 1, comments |-> 0, contribs |-> GaContribs, visits |-> 0]

NextGate ==
    \/ \E c \in Clients : Signup(c, UserSignup)
    \/ \E c \in Clients : VerifyWith(c, UserVerify)
    \/ \E c \in Clients : Login(c, UserLogin)
    \/ \E c \in Clients : NewProject(c, DependentForms)
    \/ \E c \in Clients : Contribute(c, {<<"1">>})
    \/ \E c \in Clients : DeleteAccount(c)

SpecGate == Init(GateLim) /\ [][NextGate]_vars

\* Deletions that the backend refuses: a project with a need, a contribution
\* and a comment.
RollbackLim ==
    [clients |-> RoClients, users |-> 2, projects |-> RoProjects, needs |-> RoProjects,
     medias |-> 0, links |-> 0, comments |-> RoComments, contribs |-> RoContribs,
     visits |-> 0]

OneNeedForm ==
    {[description |-> <<"d">>, ville |-> <<>>, besoins_texte |-> << <<"n">> >>,
      besoins_montant |-> <<>>, urls |-> <<>>, medias |-> <<>>]}

NextRollback ==
    \/ \E c \in Clients : Login(c, AdminLogin)
    \/ \E c \in Clients : Logout(c)
    \/ \E c \in Clients : NewProject(c, OneNeedForm)
    \/ \E c \in Clients : AddCommentWith(c, {[contenu |-> <<"k">>, parent_id |-> <<>>]})
    \/ \E c \in Clients : Contribute(c, {<<"1">>})
    \/ \E c \in Clients : DeleteProject(c)
    \/ \E c \in Clients : DeleteAccount(c)

SpecRollback == Init(RollbackLim) /\ [][NextRollback]_vars

\* Who may edit and delete a comment: the comments of the two seeded users.
AuthorsLim ==
    [clients |-> AuClients, users |-> 2, projects |-> 1, needs |-> 0, medias |-> 0,
     links |-> 0, comments |-> AuComments, contribs |-> 0, visits |-> 0]

SeededLogins == AdminLogin \cup {[email |-> OwnerEmail, mot_de_passe |-> OwnerPwd]}

OneProjectForm ==
    {[description |-> <<"d">>, ville |-> <<>>, besoins_texte |-> <<>>,
      besoins_montant |-> <<>>, urls |-> <<>>, medias |-> <<>>]}

NextAuthors ==
    \/ \E c \in Clients : Login(c, SeededLogins)
    \/ \E c \in Clients : NewProject(c, OneProjectForm)
    \/ \E c \in Clients : AddCommentWith(c, {[contenu |-> <<"k">>, parent_id |-> <<>>]})
    \/ \E c \in Clients : EditComment(c)
    \/ \E c \in Clients : DeleteComment(c)

SpecAuthors == Init(AuthorsLim) /\ [][NextAuthors]_vars

\* The edition of a project that has a need, a link and a media.
EditLim ==
    [clients |-> 1, users |-> 2, projects |-> EdProjects, needs |-> EdNeeds,
     medias |-> 2, links |-> 2, comments |-> 0, contribs |-> 0, visits |-> 0]

\* A project with a money need, a link and a media.
FullProjectForm ==
    {[description |-> <<"d">>, ville |-> <<>>, besoins_texte |-> << <<"n">> >>,
      besoins_montant |-> << <<"2">> >>, urls |-> << <<"h">> >>, medias |-> <<Png>>]}

ReplaceForms ==
    [description : {<<"e">>}, ville : {<<>>},
     besoins : {<<>>, << <<"n">> >>, << <<" ">>, <<"m">> >>},
     urls : {<<>>, << <<" ", "g">> >>}, medias : {<<>>, <<Png>>}]

NextEdit ==
    \/ \E c \in Clients : Login(c, AdminLogin)
    \/ \E c \in Clients : NewProject(c, FullProjectForm)
    \/ \E c \in Clients : EditProject(c, ReplaceForms)

SpecEdit == Init(EditLim) /\ [][NextEdit]_vars

\* Who may edit a project: the projects of the two seeded users.
OwnershipLim ==
    [clients |-> OwClients, users |-> 2, projects |-> OwProjects, needs |-> 2,
     medias |-> 2, links |-> 2, comments |-> 0, contribs |-> 0, visits |-> 0]

\* Another description with a need, a link and a media, or with none; or no
\* description.
OwnerEditForms ==
    {[description |-> <<"e">>, ville |-> <<"v">>, besoins |-> << <<"m">> >>,
      urls |-> << <<"g">> >>, medias |-> <<Png>>],
     [description |-> <<"e">>, ville |-> <<>>, besoins |-> <<>>, urls |-> <<>>,
      medias |-> <<>>],
     [description |-> <<" ">>, ville |-> <<>>, besoins |-> <<>>, urls |-> <<>>,
      medias |-> <<>>]}

NextOwnership ==
    \/ \E c \in Clients : Login(c, SeededLogins)
    \/ \E c \in Clients : NewProject(c, FullProjectForm)
    \/ \E c \in Clients : EditProject(c, OwnerEditForms)

SpecOwnership == Init(OwnershipLim) /\ [][NextOwnership]_vars

\* The life of a project, from its creation to its deletion: edited, moderated
\* and visited.
CreatorLim ==
    [clients |-> 1, users |-> 2, projects |-> CrProjects, needs |-> 0, medias |-> 0,
     links |-> 0, comments |-> 0, contribs |-> 0, visits |-> CrVisits]

NextCreator ==
    \/ \E c \in Clients : Login(c, SeededLogins)
    \/ \E c \in Clients : NewProject(c, PlainForms)
    \/ \E c \in Clients : EditProject(c, PlainEditForms)
    \/ \E c \in Clients : ManageProjects(c, {"validate", "delete"})
    \/ \E c \in Clients : ProjectDetail(c)
    \/ \E c \in Clients : DeleteProject(c)

SpecCreator == Init(CreatorLim) /\ [][NextCreator]_vars

\* The needs of a project, as created and as edited.
NeedsLim ==
    [clients |-> 1, users |-> 2, projects |-> NdProjects, needs |-> NdNeeds, medias |-> 0,
     links |-> 0, comments |-> 0, contribs |-> 0, visits |-> 0]

\* One or two needs, with amounts that are a goal, or are not, or with none.
AmountForms ==
    [description : {<<"d">>}, ville : {<<>>},
     besoins_texte : {<< <<"n">> >>, << <<"n">>, <<"o">> >>},
     besoins_montant : {<<>>, << <<"2">> >>, << <<" ", "1">> >>, << <<"x">> >>,
                        << <<"0">> >>, << <<"-", "1">> >>, << <<>>, <<"3">> >>},
     urls : {<<>>}, medias : {<<>>}]

NextNeeds ==
    \/ \E c \in Clients : Login(c, AdminLogin)
    \/ \E c \in Clients : NewProject(c, AmountForms)
    \/ \E c \in Clients : EditProject(c, LedgerEditForms)

SpecNeeds == Init(NeedsLim) /\ [][NextNeeds]_vars

\* The seeding of the two administrators at the start of a worker, and
\* registrations, interleaved, on a database that starts empty.
SeedingLim ==
    [clients |-> SdClients, users |-> SdUsers, projects |-> 0, needs |-> 0, medias |-> 0,
     links |-> 0, comments |-> 0, contribs |-> 0, visits |-> 0]

\* Registrations with the email of the new user and with the email that
\* seed_admin uses, in another case.
RacingSignups ==
    [filled : {TRUE}, ville : {<<"s">>}, email : {<<" ", "U">>, <<"u">>, <<"A", "d">>},
     pw : {UserPwd}, code : {<<"0", "1">>}]

NextSeeding ==
    \/ \E c \in Clients : SeedBegin(c)
    \/ \E c \in Clients : SeedEnd(c)
    \/ \E c \in Clients : SignupBegin(c, RacingSignups)
    \/ \E c \in Clients : SignupEnd(c)

SpecSeeding == InitFresh(SeedingLim) /\ [][NextSeeding]_vars

\* ------------------------------------------------------------- properties
\* What the specification asks of a project shown to the public.
Visible(p) == p.status = "validated" /\ p.deleted_by_admin = FALSE

\* The step is a whole request of handler op (a step of a specification whose
\* requests run one after the other), answered with out.
Answered(op, out) == resp'.op = op /\ resp'.out = out /\ req' = req

\* The step ends the request of handler op that client c had in flight.
Ended(c, op) == req[c].op = op /\ req'[c] = Idle

\* C5: the home page lists exactly the projects that are validated and not
\* soft-deleted: every index response shows exactly these; a project just
\* created is not listed; a project is listed right after validate and is not
\* listed right after archive or soft delete.
C5_Step ==
    /\ Answered("index", "page") =>
         resp'.shown = {p.id : p \in {q \in db.projects : Visible(q)}}
    /\ Answered("new_project", "created") =>
         resp'.shown \cap Ids(IndexQuery(db')) = {}
    /\ Answered("manage_projects", "updated") =>
         \A pid \in resp'.shown :
            /\ resp'.action = "validate" => pid \in Ids(IndexQuery(db'))
            /\ resp'.action \in {"archive", "delete"} => pid \notin Ids(IndexQuery(db'))

C5_IndexListsVisible == [][C5_Step]_vars

\* The home page has been served with a project in its listing.
C5_Witness == resp.op = "index" /\ resp.shown # {}

\* C6: a page served to a client with no session (the home page, the vision
\* page, the page of a project) shows only projects that are validated and not
\* soft-deleted, and the two listings show all of these.
C6_Step ==
    \A op \in {"index", "vision_et_mission", "project_detail"} :
        (Answered(op, "page") /\ session[resp'.c] = None) =>
            /\ \A pid \in resp'.shown : Visible(Row(db'.projects, pid))
            /\ op # "project_detail" =>
                 \A p \in db'.projects : Visible(p) => p.id \in resp'.shown

C6_AnonymousSeesOnlyVisible == [][C6_Step]_vars

\* C8: set_pending gives pending and not soft-deleted, validate gives validated
\* and not soft-deleted, whatever the project was; soft delete sets the flag
\* and keeps the status.
C8_Step ==
    Answered("manage_projects", "updated") =>
        \A pid \in resp'.shown :
            LET before == Row(db.projects, pid)
                after == Row(db'.projects, pid)
            IN /\ resp'.action = "set_pending" =>
                    after.status = "pending" /\ after.deleted_by_admin = FALSE
               /\ resp'.action = "validate" =>
                    after.status = "validated" /\ after.deleted_by_admin = FALSE
               /\ resp'.action = "delete" =>
                    after.deleted_by_admin = TRUE /\ after.status = before.status

C8_UnconditionalTransitions == [][C8_Step]_vars

\* An archived project has been soft-deleted, and is still archived.
C8_Witness ==
    /\ resp.op = "manage_projects" /\ resp.action = "delete"
    /\ \E p \in db.projects :
          p.id \in resp.shown /\ p.status = "archived" /\ p.deleted_by_admin = TRUE

\* C9: archive changes the status only of a validated project, unarchive only
\* of an archived one; otherwise, and for an unknown action, the tables are
\* left as they are and the answer is the same success message.
C9_Step ==
    (resp'.op = "manage_projects" /\ resp'.action # "" /\ req' = req) =>
        /\ resp'.out = "updated"
        /\ \A pid \in resp'.shown :
            LET before == Row(db.projects, pid)
                after == Row(db'.projects, pid)
            IN /\ resp'.action = "archive" =>
                    IF before.status = "validated"
                    THEN db' = Save(db, "projects", [before EXCEPT !.status = "archived"])
                    ELSE db' = db
               /\ resp'.action = "unarchive" =>
                    IF before.status = "archived"
                    THEN db' = Save(db, "projects", [before EXCEPT !.status = "validated"])
                    ELSE db' = db
               /\ resp'.action = "bogus" => db' = db

C9_ConditionalTransitions == [][C9_Step]_vars

\* archive has been asked for a project that is not validated.
C9_Witness ==
    /\ resp.op = "manage_projects" /\ resp.action = "archive" /\ resp.out = "updated"
    /\ \E p \in db.projects : p.id \in resp.shown /\ p.status = "pending"


\* The needs with a cap: money needs whose goal is set.
Capped(d) == {n \in d.needs : n.is_money /\ n.amount_goal # None}

\* C1: for every money need with a goal, the contributions attached to it sum
\* to at most the goal, in every state reached by contribute, project creation,
\* project edit and project deletion requests; and a contribute request for
\* more than what remains is refused and adds no Contribution row.
C1_Step ==
    /\ \A n \in Capped(db') : TotalContrib(db', n.id) <= n.amount_goal
    /\ resp'.op = "contribute" =>
         \A n \in Capped(db) :
            (resp'.out = "accepted" /\ \E x \in db'.contribs \ db.contribs : x.need = n.id)
               => TotalContrib(db', n.id) <= n.amount_goal

C1_SumWithinGoal == [][C1_Step]_vars

\* C2: the contribute requests of two clients on one capped need, interleaved:
\* when a request ends by adding its Contribution row, the total of the need
\* is still within the goal.
C2_Step ==
    \A c \in Clients :
        (Ended(c, "contribute") /\ db'.contribs # db.contribs) =>
            \A n \in Capped(db') :
                n.id = req[c].need => TotalContrib(db', n.id) <= n.amount_goal

C2_NoJointOvershoot == [][C2_Step]_vars

\* C3: after delete_project on P succeeds, no Need, Media, ProjectLink or
\* Comment of P is left, and no Contribution attached to a Need that was P's.
C3_Step ==
    Answered("delete_project", "deleted") =>
        \A pid \in resp'.shown :
            /\ \A t \in {"needs", "medias", "links", "comments"} :
                   \A r \in db'[t] : r.project # pid
            /\ \A x \in db'.contribs :
                   ~\E n \in db.needs : n.id = x.need /\ n.project = pid

C3_DeleteProjectCascades == [][C3_Step]_vars

\* The replies of comment kid, direct and indirect.
RECURSIVE Descendants(_, _)
Descendants(d, kid) ==
    LET replies == {k.id : k \in {x \in d.comments : x.parent = kid}}
    IN replies \cup UNION {Descendants(d, r) : r \in replies}

\* C4: after delete_comment on c by its author succeeds, c and every direct or
\* indirect reply of c are gone.
C4_Step ==
    Answered("delete_comment", "deleted") =>
        \A kid \in {resp'.n} \cup Descendants(db, resp'.n) : ~Has(db'.comments, kid)

C4_DeleteCommentRemovesSubtree == [][C4_Step]_vars

\* C7: the status and the soft-delete flag of a project change only in the
\* step that ends a manage_projects request that passed the administrator
\* check, whatever requests are interleaved.
C7_Step ==
    \A p \in db.projects :
        (Has(db'.projects, p.id)
           /\ (Row(db'.projects, p.id).status # p.status
                 \/ Row(db'.projects, p.id).deleted_by_admin # p.deleted_by_admin))
        => \E c \in Clients : Ended(c, "manage_projects") /\ req[c].out = "go"

C7_OnlyAdminActionChangesStatus == [][C7_Step]_vars

\* C10: a register request whose email is, ignoring case, the email of a user
\* that exists when the request comes to its insert (or to its look-up) ends
\* with the duplicate-email outcome and creates no user; the emails stored are
\* lower-case.
C10_Step ==
    /\ \A u \in db'.users : u.email = Lower(u.email)
    /\ \A c \in Clients :
          ((Ended(c, "signup") /\ \E u \in db.users : Lower(u.email) = Lower(req[c].email))
             => (resp'.out = "duplicate_email" /\ db'.users = db.users))

C10_DuplicateEmailRefused == [][C10_Step]_vars


\* The user rows with the email a form sent (lower-cased, stripped).
Account(d, raw) == {u \in d.users : u.email = Lower(Strip(raw))}

\* The step leaves every user row but those of ids as it was.
OnlyUsersChanged(ids) ==
    /\ [db' EXCEPT !.users = {}] = [db EXCEPT !.users = {}]
    /\ Ids(db'.users) = Ids(db.users)
    /\ \A u \in db.users : u.id \notin ids => u \in db'.users

\* C11, as amended: a verify request verifies the account iff the account
\* (looked up by the normalised email) exists, is not verified yet and the code
\* sent, with the white space around it removed, is the stored code; it then
\* clears the stored code and its timestamp and changes nothing else; for a
\* verified account a request with a non-blank code answers already-verified and
\* changes nothing; a code that does not match leaves the tables as they are.
C11_Step ==
    (resp'.op = "verify" /\ req' = req) =>
        LET acct == Account(db, resp'.input[1])
            code == Strip(resp'.input[2])
            match == \E u \in acct : ~u.is_verified /\ u.verification_code = code
        IN /\ (resp'.out = "verified") <=> match
           /\ match =>
                /\ OnlyUsersChanged(Ids(acct))
                /\ \A u \in acct :
                      Row(db'.users, u.id) = [u EXCEPT !.is_verified = TRUE,
                                                       !.verification_code = NoCode,
                                                       !.verification_created_at = NoStamp]
           /\ ~match => db' = db
           /\ ((\E u \in acct : u.is_verified) /\ code # <<>>) =>
                resp'.out = "already_verified"
           /\ ((\E u \in acct : ~u.is_verified /\ u.verification_code # code) /\ code # <<>>) =>
                resp'.out = "code_mismatch"

C11_VerifyTrimmedCode == [][C11_Step]_vars

\* A user who signed up and verified has sent verify again.
C11_Witness ==
    /\ resp.op = "verify" /\ resp.out = "already_verified"
    /\ \E u \in Account(db, resp.input[1]) :
          u.is_verified /\ ~u.is_admin /\ u.verification_created_at = NoStamp

\* C11, as stated: the account is verified iff it exists, is not verified and
\* the code sent equals the stored code; a later verify with any code answers
\* already-verified.
C11_StatedStep ==
    (resp'.op = "verify" /\ req' = req) =>
        LET acct == Account(db, resp'.input[1])
            code == resp'.input[2]
        IN /\ (resp'.out = "verified") <=>
                (\E u \in acct : ~u.is_verified /\ u.verification_code = code)
           /\ (\E u \in acct : u.is_verified) =>
                (resp'.out = "already_verified" /\ db' = db)

C11_VerifyExactCode == [][C11_StatedStep]_vars


\* C12: a login request gives the session of user U iff the lower-cased,
\* stripped email is U's, the password verifies against U's hash and U is
\* verified; an unknown email or a wrong password is answered invalid
\* credentials; not-verified is answered only for a correct password on an
\* unverified account; a refused login leaves the session as it was.
C12_Step ==
    (resp'.op = "login" /\ req' = req) =>
        LET acct == Account(db, resp'.input[1])
            pw == resp'.input[2][1]
            known == {u \in acct : CheckHash(u.password_hash, pw)}
        IN /\ db' = db
           /\ (resp'.out = "session") <=> (\E u \in known : u.is_verified)
           /\ \A u \in known : u.is_verified => session'[resp'.c] = u.id
           /\ known = {} => resp'.out = "invalid_credentials"
           /\ (resp'.out = "not_verified") <=> (\E u \in known : ~u.is_verified)
           /\ resp'.out # "session" => session' = session
           /\ \A c \in Clients : c # resp'.c => session'[c] = session[c]

C12_LoginGate == [][C12_Step]_vars

\* A user who signed up and verified holds a session.
C12_Witness ==
    /\ resp.op = "login" /\ resp.out = "session"
    /\ \E u \in db.users : ~u.is_admin /\ u.is_verified /\ session[resp.c] = u.id


\* C13: after delete_account by user U succeeds, U's row is gone, no project
\* has creator U, no Need, Media, ProjectLink or Comment belongs to a project
\* that was U's, no Contribution is attached to a Need of such a project, and
\* no Comment written by U is left.
C13_Step ==
    Answered("delete_account", "deleted") =>
        LET uid == resp'.n
            owned == {p.id : p \in {q \in db.projects : q.createur = uid}}
        IN /\ ~Has(db'.users, uid)
           /\ \A p \in db'.projects : p.createur # uid
           /\ \A t \in {"needs", "medias", "links", "comments"} :
                  \A r \in db'[t] : r.project \notin owned
           /\ \A x \in db'.contribs :
                  ~\E n \in db.needs : n.id = x.need /\ n.project \in owned
           /\ \A k \in db'.comments : k.auteur # uid

C13_DeleteAccountCascades == [][C13_Step]_vars


\* C14: a delete_project or delete_account request of which a statement is
\* refused leaves the tables and the session as they were before the request;
\* a request that is not refused applies all of its statements (the project
\* row, or the user row, is gone).
C14_Step ==
    /\ (resp'.op \in {"delete_project", "delete_account"} /\ req' = req
          /\ resp'.out # "deleted") => (db' = db /\ session' = session)
    /\ Answered("delete_project", "deleted") =>
          \A pid \in resp'.shown : ~Has(db'.projects, pid)
    /\ Answered("delete_account", "deleted") => ~Has(db'.users, resp'.n)

C15_Step ==
    /\ \A x \in db'.contribs : x.amount > 0
    /\ (resp'.op = "contribute" /\ req' = req) =>
          LET raw == Strip(resp'.input[1])
              invalid == ~IsInt(raw) \/ IntOf(raw) <= 0
          IN /\ invalid => db' = db
             /\ (invalid /\ resp'.out \notin {"login_required", "not_found"}) =>
                   resp'.out = "invalid_amount"
             /\ resp'.out = "invalid_amount" => invalid

C15_InvalidAmountRefused == [][C15_Step]_vars

\* A logged-in user has sent an amount of zero to a need that exists, after
\* a contribution was stored.
C15_Witness ==
    /\ resp.op = "contribute" /\ resp.out = "invalid_amount" /\ resp.input[1] = <<"0">>
    /\ db.contribs # {}


\* C19: a contribute request of a user, with an amount above zero, on a need
\* that exists is accepted iff the need is not a money need, or has no goal, or
\* the amount is at most the goal less the sum of the contributions stored; an
\* accepted request adds the amount to the sum (so the amount equal to what
\* remains is accepted and leaves 0); a refused one reports what remains and
\* changes nothing.
C19_Step ==
    (resp'.op = "contribute" /\ req' = req) =>
        LET raw == Strip(resp'.input[1])
            nid == resp'.input[2]
            need == Row(db.needs, nid)
            sum == TotalContrib(db, nid)
            capped == need.is_money /\ need.amount_goal # None
        IN (/\ IsInt(raw) /\ IntOf(raw) > 0
            /\ Has(db.needs, nid)
            /\ Has(db.users, session[resp'.c])) =>
               /\ (resp'.out = "accepted") <=> (~capped \/ IntOf(raw) <= need.amount_goal - sum)
               /\ resp'.out = "accepted" =>
                    /\ TotalContrib(db', nid) = sum + IntOf(raw)
                    /\ Cardinality(db'.contribs \ db.contribs) = 1
                    /\ db.contribs \subseteq db'.contribs
                    /\ [db' EXCEPT !.contribs = {}, !.seq = db.seq] = [db EXCEPT !.contribs = {}]
               /\ (capped /\ IntOf(raw) = need.amount_goal - sum) =>
                    need.amount_goal - TotalContrib(db', nid) = 0
               /\ resp'.out # "accepted" =>
                    /\ resp'.out = "over_cap"
                    /\ resp'.n = need.amount_goal - sum
                    /\ db' = db

C19_AcceptedWithinRemaining == [][C19_Step]_vars

\* Goal 3: 2 was accepted, then 1, and nothing remains.
C19_Witness ==
    /\ resp.op = "contribute" /\ resp.out = "accepted" /\ resp.input[1] = <<"1">>
    /\ \E n \in db.needs :
          /\ n.is_money /\ n.amount_goal = 3 /\ TotalContrib(db, n.id) = 3
          /\ \E x \in db.contribs : x.need = n.id /\ x.amount = 2

\* C20: a contribute request leaves the needs as they are, also when it brings
\* the sum to the goal; is_fulfilled is false and fulfilled_at is null for
\* every need, in every state.
C20_Step ==
    /\ \A n \in db'.needs : n.is_fulfilled = FALSE /\ n.fulfilled_at = NoStamp
    /\ (resp'.op = "contribute" /\ req' = req) => db'.needs = db.needs

C20_NeverFulfilled == [][C20_Step]_vars

\* A contribution has brought the sum of a money need to its goal.
C20_Witness ==
    /\ resp.op = "contribute" /\ resp.out = "accepted"
    /\ \E n \in db.needs :
          /\ n.id = resp.input[2] /\ n.is_money
          /\ TotalContrib(db, n.id) = n.amount_goal /\ ~n.is_fulfilled


\* C16: every comment that has a parent is on the project of its parent.
C16_ParentInSameProject ==
    \A k \in db.comments :
        (k.parent # None /\ Has(db.comments, k.parent)) =>
            Row(db.comments, k.parent).project = k.project


\* C17: a delete_project request deletes the project only when the user who
\* asks is its creator or an administrator; asked by another logged-in user it
\* is refused and the tables are left as they are.
C17_Step ==
    (resp'.op = "delete_project" /\ req' = req) =>
        LET pid == resp'.input[1]
            user == CurrentUser(resp'.c)
            allowed == /\ user.id # None /\ Has(db.projects, pid)
                       /\ (Row(db.projects, pid).createur = user.id \/ user.is_admin)
        IN /\ db' # db => (allowed /\ resp'.out = "deleted")
           /\ (user.id # None /\ Has(db.projects, pid) /\ ~allowed) =>
                 (resp'.out = "forbidden" /\ db' = db)
           /\ (allowed /\ resp'.out = "deleted") => ~Has(db'.projects, pid)

C17_OnlyCreatorOrAdminDeletes == [][C17_Step]_vars

\* A user who is neither the creator nor an administrator has asked for the
\* deletion of a project that has dependents.
C17_Witness ==
    /\ resp.op = "delete_project" /\ resp.out = "forbidden"
    /\ \E p \in db.projects :
          /\ p.id = resp.input[1] /\ p.createur # session[resp.c]
          /\ \E n \in db.needs : n.project = p.id
    /\ \E u \in db.users : u.id = session[resp.c] /\ ~u.is_admin


\* C18: a user who has not verified gets no session from login, and every
\* Project row and every Contribution row is created by a user whose row
\* exists and is verified when the row is created; a verified user with the
\* right password gets a session.
C18_Step ==
    /\ \A p \in db'.projects :
          ~Has(db.projects, p.id) =>
              (Has(db.users, p.createur) /\ Row(db.users, p.createur).is_verified)
    /\ \A x \in db'.contribs :
          ~Has(db.contribs, x.id) =>
              (Has(db.users, x.user) /\ Row(db.users, x.user).is_verified)
    /\ (resp'.op = "login" /\ req' = req) =>
          \A u \in Account(db, resp'.input[1]) :
              /\ ~u.is_verified => (resp'.out # "session" /\ session' = session)
              /\ (u.is_verified /\ CheckHash(u.password_hash, resp'.input[2][1])) =>
                    (resp'.out = "session" /\ session'[resp'.c] = u.id)

C18_OnlyVerifiedUsersCreate == [][C18_Step]_vars

\* The comment as the author of the request would see it: the row, when the
\* user of the session wrote it.
OwnComment(d, c, kid) ==
    {k \in d.comments : k.id = kid /\ CurrentUser(c).id # None /\ k.auteur = CurrentUser(c).id}

\* C21: an edit_comment request of the author of the comment with a content
\* that is not empty once stripped is answered edited, and the stored content
\* of the comment becomes the stripped content while every other comment (and
\* every other table) stays as it was; with an empty content it is answered
\* empty and nothing changes.
C21_Step ==
    (resp'.op = "edit_comment" /\ req' = req) =>
        LET kid == resp'.input[1]
            contenu == Strip(resp'.input[2])
        IN \A k \in OwnComment(db, resp'.c, kid) :
              /\ contenu # <<>> =>
                   /\ resp'.out = "edited"
                   /\ db' = [db EXCEPT !.comments = (@ \ {k}) \cup {[k EXCEPT !.contenu = contenu]}]
              /\ contenu = <<>> => (resp'.out = "empty" /\ db' = db)

C21_AuthorEditStoresContent == [][C21_Step]_vars

\* C22: an edit_comment or delete_comment request changes the tables only when
\* the user of the session is the author of the comment; asked by another user
\* (an administrator too) it is answered not-author and every comment, and
\* every other row, is left as it was.
C22_Step ==
    (resp'.op \in {"edit_comment", "delete_comment"} /\ req' = req) =>
        LET kid == resp'.input[1]
            user == CurrentUser(resp'.c)
        IN /\ db' # db => OwnComment(db, resp'.c, kid) # {}
           /\ (user.id # None /\ Has(db.comments, kid) /\ Row(db.comments, kid).auteur # user.id) =>
                 (resp'.out = "not_author" /\ db' = db)

C22_OnlyAuthorEditsOrDeletes == [][C22_Step]_vars

\* An administrator has asked for the deletion of a comment written by the
\* other user, and the comment is still there.
C22_Witness ==
    /\ resp.op = "delete_comment" /\ resp.out = "not_author"
    /\ \E k \in db.comments : k.id = resp.input[1] /\ k.auteur # session[resp.c]
    /\ \E u \in db.users : u.id = session[resp.c] /\ u.is_admin

\* C23: an add_comment request whose content is empty once stripped is answered
\* empty and stores nothing; a request of a user, on a project that exists,
\* with a content and with a parent_id that is the id of no comment, is
\* answered added and stores one comment, on that project, with no parent.
C23_Step ==
    (resp'.op = "add_comment" /\ req' = req) =>
        LET pid == resp'.input[1]
            contenu == Strip(resp'.input[2])
            parent_id == resp'.input[3]
            resolves == IsInt(parent_id) /\ Has(db.comments, IntOf(parent_id))
        IN /\ contenu = <<>> => (resp'.out = "empty" /\ db' = db)
           /\ (/\ contenu # <<>>
               /\ Has(db.projects, pid)
               /\ CurrentUser(resp'.c).id # None
               /\ parent_id # <<>> /\ ~resolves) =>
                 /\ resp'.out = "added"
                 /\ \E k \in db'.comments \ db.comments :
                       /\ db'.comments = db.comments \cup {k}
                       /\ k.project = pid /\ k.contenu = contenu /\ k.parent = None

C23_MissingParentFallsBack == [][C23_Step]_vars

\* The texts of a form that are not empty once stripped, stripped, in order.
RECURSIVE Stripped(_)
Stripped(texts) ==
    IF texts = <<>> THEN <<>>
    ELSE IF Strip(Head(texts)) = <<>> THEN Stripped(Tail(texts))
    ELSE <<Strip(Head(texts))>> \o Stripped(Tail(texts))

\* The rows in the order of their ids.
RECURSIVE ById(_)
ById(rows) ==
    IF rows = {} THEN <<>>
    ELSE LET r == CHOOSE x \in rows : \A y \in rows : x.id <= y.id
         IN <<r>> \o ById(rows \ {r})

\* The rows of table t that belong to project pid.
OfProject(d, t, pid) == {r \in d[t] : r.project = pid}

\* C24: after an edit_project request answered updated, the needs of the
\* project are, in order, the texts sent that are not empty once stripped (and
\* no other need: none of the needs stored before is kept or merged), its links
\* are the urls sent that are not empty once stripped, and every media stored
\* before the request is still stored; the rows of the other projects are as
\* they were.
C24_Step ==
    Answered("edit_project", "updated") =>
        LET pid == resp'.input[1]
            f == resp'.input[2]
            needs == ById(OfProject(db', "needs", pid))
            links == ById(OfProject(db', "links", pid))
        IN /\ Len(needs) = Len(Stripped(f.besoins))
           /\ \A i \in DOMAIN needs : needs[i].texte = Stripped(f.besoins)[i]
           /\ Len(links) = Len(Stripped(f.urls))
           /\ \A i \in DOMAIN links : links[i].url = Stripped(f.urls)[i]
           /\ db.medias \subseteq db'.medias
           /\ \A t \in {"needs", "links", "medias"} :
                 \A r \in db[t] : r.project # pid => r \in db'[t]

C24_EditReplacesNeedsAndLinks == [][C24_Step]_vars

\* A project that had a need, a link and a media has been edited with another
\* need and no link: it has that need only, no link, and its media.
C24_Witness ==
    /\ resp.op = "edit_project" /\ resp.out = "updated"
    /\ resp.input[2].besoins = << <<" ">>, <<"m">> >> /\ resp.input[2].urls = <<>>
    /\ \A n \in db.needs : n.texte = <<"m">>
    /\ db.needs # {} /\ db.links = {} /\ db.medias # {}

\* C30: an edit_project request changes the tables only when the user of the
\* session is the creator of the project; asked by another user (an
\* administrator too) it is answered not-owner and the project, its needs, its
\* links and its medias (and every other row) are left as they were.
C30_Step ==
    (resp'.op = "edit_project" /\ req' = req) =>
        LET pid == resp'.input[1]
            user == CurrentUser(resp'.c)
            creator == /\ user.id # None /\ Has(db.projects, pid)
                       /\ Row(db.projects, pid).createur = user.id
        IN /\ [db' EXCEPT !.seq = db.seq] # db => (creator /\ resp'.out = "updated")
           /\ (user.id # None /\ Has(db.projects, pid) /\ ~creator) =>
                 (resp'.out = "not_owner" /\ db' = db)

C30_OnlyCreatorEdits == [][C30_Step]_vars

\* An administrator has asked to edit the project of the other user, with
\* another description, a need, a link and a media; the project is as it was.
C30_Witness ==
    /\ resp.op = "edit_project" /\ resp.out = "not_owner"
    /\ resp.input[2].description = <<"e">> /\ resp.input[2].besoins # <<>>
    /\ \E u \in db.users : u.id = session[resp.c] /\ u.is_admin
    /\ \E p \in db.projects :
          /\ p.id = resp.input[1] /\ p.createur # session[resp.c]
          /\ p.description = <<"d">>
          /\ \E n \in db.needs : n.project = p.id /\ n.texte = <<"n">>

\* C25: a project row appears only in a new_project request answered created,
\* with status pending, the soft-delete flag false and the user of the session
\* as creator; a new_project request of a user with a description that is
\* empty once stripped is answered with the validation message and stores
\* nothing; and no step changes the creator of a project that is there before
\* and after it.
C25_Step ==
    /\ \A p \in db'.projects :
          ~Has(db.projects, p.id) =>
              /\ resp'.op = "new_project" /\ resp'.out = "created" /\ resp'.shown = {p.id}
              /\ p.status = "pending" /\ p.deleted_by_admin = FALSE
              /\ p.createur = session[resp'.c] /\ Has(db.users, p.createur)
    /\ (/\ resp'.op = "new_project" /\ req' = req
        /\ CurrentUser(resp'.c).id # None
        /\ Strip(resp'.input[1].description) = <<>>) =>
          (resp'.out = "validation" /\ db' = db)
    /\ \A p \in db.projects :
          Has(db'.projects, p.id) => Row(db'.projects, p.id).createur = p.createur

C25_CreatedPendingCreatorKept == [][C25_Step]_vars

\* A project of the second user has been edited (by its creator), validated and
\* visited, and has the creator it was created with.
C25_Witness ==
    \E p \in db.projects :
        /\ p.createur = 2 /\ p.description = <<"e">>
        /\ p.status = "validated" /\ p.visits_count = 1

\* The amount a need gets from the form: the amount at the place of its text.
AmountSent(f, texte) ==
    {IF i <= Len(f.besoins_montant) THEN Strip(f.besoins_montant[i]) ELSE <<>> :
        i \in {j \in DOMAIN f.besoins_texte : Strip(f.besoins_texte[j]) = texte}}

\* C26: in every state, a need has a goal iff it is a money need, and a goal
\* is above zero; a need created with the project is a money need iff the
\* amount sent with it is an integer above zero, and its goal is then that
\* integer (an amount that is missing, is not an integer, is zero or is
\* negative gives a need that is not a money need and has no goal); the needs
\* that edit_project creates are not money needs.
C26_Step ==
    /\ \A n \in db'.needs :
          /\ (n.amount_goal # None) <=> n.is_money
          /\ n.is_money => n.amount_goal > 0
    /\ Answered("new_project", "created") =>
          \A n \in db'.needs \ db.needs :
             \A raw \in AmountSent(resp'.input[1], n.texte) :
                /\ n.is_money <=> (IsInt(raw) /\ IntOf(raw) > 0)
                /\ n.is_money => n.amount_goal = IntOf(raw)
    /\ Answered("edit_project", "updated") =>
          \A n \in OfProject(db', "needs", resp'.input[1]) : ~n.is_money

C26_GoalIffMoney == [][C26_Step]_vars

\* A project has been created with a need sent with an empty amount and a need
\* sent with the amount 3.
C26_Witness ==
    /\ resp.op = "new_project" /\ resp.out = "created"
    /\ resp.input[1].besoins_montant = << <<>>, <<"3">> >>
    /\ \E n \in db.needs : n.texte = <<"o">> /\ n.is_money /\ n.amount_goal = 3
    /\ \E n \in db.needs : n.texte = <<"n">> /\ ~n.is_money

\* C27: in every state reached by register requests and seedings of the
\* administrators, interleaved, no two user rows have emails that are equal
\* when the case is ignored.
C27_NoTwoUsersShareEmail ==
    \A u, v \in db.users : u.id # v.id => Lower(u.email) # Lower(v.email)

\* The INSERT of a seeding has been refused because a registration with the
\* same email, in another case, was stored after the seeding's SELECT; the
\* row of the registration is the only one with that email.
C27_Witness ==
    /\ resp.op = "seed" /\ resp.out = "updated_after_conflict"
    /\ \E u \in db.users :
          /\ u.email = AdminEmail /\ u.is_admin /\ CheckHash(u.password_hash, UserPwd)
          /\ \A v \in db.users : v.email = AdminEmail => v = u

\* C28: in every state, every foreign key points at a row that exists: the
\* need and the user of a contribution, the project, the author and the parent
\* (when set) of a comment, the project of a need, of a media and of a link,
\* also after an account is deleted and after the needs of a project are
\* replaced.
C28_ReferentialIntegrity == ~Dangling(db)

\* C29: the step that ends a manage_projects request of an administrator
\* leaves the description, the town, the creator and the visit counter of its
\* project, and every other row, as the requests that ended before it left
\* them: only the status and the soft-delete flag of that project change,
\* whatever requests are interleaved.
C29_Step ==
    \A c \in Clients :
        (Ended(c, "manage_projects") /\ req[c].out = "go") =>
            LET pid == req[c].project.id
            IN /\ [db' EXCEPT !.projects = {}] = [db EXCEPT !.projects = {}]
               /\ Ids(db'.projects) = Ids(db.projects)
               /\ \A p \in db.projects :
                     /\ p.id # pid => p \in db'.projects
                     /\ p.id = pid =>
                          Row(db'.projects, pid) =
                             [p EXCEPT !.status = Row(db'.projects, pid).status,
                                       !.deleted_by_admin = Row(db'.projects, pid).deleted_by_admin]

C29_AdminActionChangesOnlyStatus == [][C29_Step]_vars


====
